---- MODULE Spec2Model ----
(***************************************************************************)
(* Classification-and-extraction pipeline of sales-call-graph: the driver  *)
(* (main), the store writer (storeExtraction), the entity resolvers and    *)
(* the extractor's normalisation, over a relational store `db`.            *)
(*                                                                         *)
(* Strings the code inspects character by character (names, e-mails,       *)
(* company names) are sequences of one-character strings; strings the code *)
(* only compares for equality (vocabulary keys, category tokens) are       *)
(* TLA+ strings.  JSON values are tagged records [t |-> tag, v |-> value];  *)
(* a JSON string is tagged "str" when it is a character sequence and "tok" *)
(* when it is a TLA+ string.                                               *)
(***************************************************************************)
EXTENDS Integers, Sequences, FiniteSets, TLC

\* ------------------------------------------------------------------------
\* Bounds of the model
\* ------------------------------------------------------------------------

\* number of raw_meetings rows present in the store
NumMeetings == 2

\* number of driver runs (process starts) in one behaviour
MaxRuns == 2

\* number of injected process-level or store-level failures in one behaviour
MaxFaults == 1

\* raw quality scores range over (1 - ScoreSpread) .. (10 + ScoreSpread)
ScoreSpread == 3

\* ------------------------------------------------------------------------
\* Character strings
\* ------------------------------------------------------------------------

UpperCase ==
  <<"A","B","C","D","E","F","G","H","I","J","K","L","M",
    "N","O","P","Q","R","S","T","U","V","W","X","Y","Z">>

LowerCase ==
  <<"a","b","c","d","e","f","g","h","i","j","k","l","m",
    "n","o","p","q","r","s","t","u","v","w","x","y","z">>

Digits == <<"0","1","2","3","4","5","6","7","8","9">>

\* the characters matched by \s that occur in the inputs
IsSpace(c) == c \in {" ", "\t", "\n"}

LowerChar(c) ==
  IF \E k \in 1..26 : UpperCase[k] = c
    THEN LowerCase[CHOOSE k \in 1..26 : UpperCase[k] = c]
    ELSE c

\* String.prototype.toLowerCase
toLowerCase(s) == [i \in 1..Len(s) |-> LowerChar(s[i])]

RECURSIVE trimStart(_)
trimStart(s) ==
  IF s # <<>> /\ IsSpace(Head(s)) THEN trimStart(Tail(s)) ELSE s

RECURSIVE trimEnd(_)
trimEnd(s) ==
  IF s # <<>> /\ IsSpace(s[Len(s)]) THEN trimEnd(SubSeq(s, 1, Len(s) - 1)) ELSE s

\* String.prototype.trim
trim(s) == trimEnd(trimStart(s))

\* String.prototype.includes for a one-character needle
includes(s, c) == \E i \in 1..Len(s) : s[i] = c

\* s.replace(/\s+/g, "."): every maximal run of whitespace becomes one dot
RECURSIVE replaceSpaceRuns(_)
replaceSpaceRuns(s) ==
  IF s = <<>> THEN <<>>
  ELSE IF IsSpace(Head(s))
    THEN <<".">> \o replaceSpaceRuns(trimStart(s))
    ELSE <<Head(s)>> \o replaceSpaceRuns(Tail(s))

IsLowerAZ(c) == \E k \in 1..26 : LowerCase[k] = c

\* s.replace(/[^a-z.]/g, "")
stripNonSlug(s) == SelectSeq(s, LAMBDA c : IsLowerAZ(c) \/ c = ".")

\* decimal rendering of a natural number, as template literals render it
RECURSIVE NatToStr(_)
NatToStr(n) ==
  IF n < 10 THEN <<Digits[n + 1]>>
  ELSE NatToStr(n \div 10) \o <<Digits[(n % 10) + 1]>>

\* ------------------------------------------------------------------------
\* JSON values
\* ------------------------------------------------------------------------

Undef == [t |-> "undef"]
Null == [t |-> "null"]
Num(n) == [t |-> "num", v |-> n]
Str(s) == [t |-> "str", v |-> s]
Tok(s) == [t |-> "tok", v |-> s]
Bool(b) == [t |-> "bool", v |-> b]
Arr(a) == [t |-> "arr", v |-> a]
Obj(f) == [t |-> "obj", v |-> f]

\* JavaScript truthiness, as used by `x || dflt`
Truthy(x) ==
  CASE x.t = "undef" -> FALSE
    [] x.t = "null" -> FALSE
    [] x.t = "num" -> x.v # 0
    [] x.t = "str" -> x.v # <<>>
    [] x.t = "tok" -> x.v # ""
    [] x.t = "bool" -> x.v
    [] OTHER -> TRUE

\* x || dflt
OrElse(x, dflt) == IF Truthy(x) THEN x ELSE dflt

\* property read raw.name: undefined on a missing key and on a non-object
\* (the caller handles null, on which the read throws)
Prop(raw, name) ==
  IF raw.t = "obj" /\ name \in DOMAIN raw.v THEN raw.v[name] ELSE Undef

\* mutant: a value that is no array is wrapped into one
ArrayOrSingleton(x) == IF x.t = "arr" THEN x.v ELSE <<x>>

\* Array.isArray(x) ? x : []
ArrayOrEmpty(x) == IF x.t = "arr" THEN x.v ELSE <<>>

Min(a, b) == IF a < b THEN a ELSE b
Max(a, b) == IF a > b THEN a ELSE b

\* the "Unknown" literal and the other string defaults of normalizeResult
UnknownName == <<"U","n","k","n","o","w","n">>

\* mutant: the lower clamp is missing
ClampScoreAbove(x) ==
  IF x.t = "num" THEN Min(10, x.v) ELSE 5

\* typeof score === "number" ? Math.min(10, Math.max(1, score)) : 5
ClampScore(x) ==
  IF x.t = "num" THEN Min(10, Max(1, x.v)) ELSE 5

\* normalizeResult(raw); raw is any parsed JSON value except null
normalizeResult(raw) ==
  [ call_type |-> OrElse(Prop(raw, "call_type"), Tok("discovery")),
    offering_pitched |-> OrElse(Prop(raw, "offering_pitched"), Tok("none")),
    company_name |-> OrElse(Prop(raw, "company_name"), Str(UnknownName)),
    prospect_names |-> ArrayOrEmpty(Prop(raw, "prospect_names")),
    team_members |-> ArrayOrEmpty(Prop(raw, "team_members")),
    tech_stack |-> ArrayOrEmpty(Prop(raw, "tech_stack")),
    call_outcome |-> OrElse(Prop(raw, "call_outcome"), Tok("neutral")),
    deal_size |-> OrElse(Prop(raw, "deal_size"), Null),
    call_quality_score |-> ClampScore(Prop(raw, "call_quality_score")),
    quality_rationale |-> OrElse(Prop(raw, "quality_rationale"), Tok("")),
    objections |-> ArrayOrEmpty(Prop(raw, "objections")),
    prospect_questions |-> ArrayOrEmpty(Prop(raw, "prospect_questions")),
    key_quotes |-> ArrayOrEmpty(Prop(raw, "key_quotes")),
    follow_up_actions |-> ArrayOrEmpty(Prop(raw, "follow_up_actions")),
    counter_responses |-> ArrayOrEmpty(Prop(raw, "counter_responses")) ]

\* ------------------------------------------------------------------------
\* The relational store
\* ------------------------------------------------------------------------

\* SHERLOCK_EMAIL_DOMAIN default
SHERLOCK_DOMAIN == <<"s","h","e","r","l","o","c","k",".","x","y","z">>

\* absent timestamp (processed_at IS NULL) and absent row id
NoTime == -1
NoId == 0

Meetings == 1..NumMeetings

\* type_key of the rows seed.ts puts into objections
OBJECTION_SEEDS ==
  << "budget_timing", "need_internal_buyin", "already_have_auditor",
     "scope_concerns", "timeline_too_long", "not_ready_yet",
     "comparing_competitors", "other" >>

\* name of the rows seed.ts puts into technologies
TECHNOLOGY_SEEDS ==
  << "Solidity", "Vyper", "Rust", "Move", "Cairo", "Foundry", "Hardhat",
     "Truffle", "Ethereum", "Arbitrum", "Optimism", "Base", "Polygon",
     "Avalanche", "Solana", "BSC" >>

\* a row id is the row's position in its table
RowIds(table) == 1..Len(table)

\* db.select().from(table).where(eq(column, value)).limit(1): the id of the
\* first matching row, or NoId
SelectFirst(table, column, value) ==
  IF \E k \in RowIds(table) : table[k][column] = value
    THEN CHOOSE k \in RowIds(table) :
           table[k][column] = value /\ \A j \in 1..(k - 1) : table[j][column] # value
    ELSE NoId

\* mutant: a key that is not seeded falls back to the last row ("other")
getObjectionIdOrOther(db, typeKey) ==
  IF typeKey.t = "tok" /\ \E k \in RowIds(db.objections) : db.objections[k].typeKey = typeKey.v
    THEN SelectFirst(db.objections, "typeKey", typeKey.v)
    ELSE Len(db.objections)

\* getObjectionId(typeKey): a lookup, never an insert
getObjectionId(db, typeKey) ==
  IF typeKey.t = "tok"
    THEN SelectFirst(db.objections, "typeKey", typeKey.v)
    ELSE NoId

\* getTechnologyId(name): a lookup, never an insert
getTechnologyId(db, name) ==
  IF name.t = "tok"
    THEN SelectFirst(db.technologies, "name", name.v)
    ELSE NoId

\* mutant: the placeholder name carries no timestamp
PlaceholderCompanyNameFixed(now) == UnknownName

\* `Unknown-${Date.now()}`
PlaceholderCompanyName(now) == UnknownName \o <<"-">> \o NatToStr(now)

\* results of a helper: the store afterwards, the id returned, whether it threw
Returned(db, id) == [db |-> db, id |-> id, threw |-> FALSE]
Threw(db) == [db |-> db, id |-> NoId, threw |-> TRUE]

\* mutant: the table has no unique constraint on name
InsertCompanyUnconstrained(db, name, date, fail) ==
  IF fail THEN Threw(db)
    ELSE Returned(
           [db EXCEPT !.companies = Append(@, [name |-> name, firstSeenDate |-> date])],
           Len(db.companies) + 1)

\* db.insert(companies): the unique constraint on name, or the injected
\* failure `fail`, makes the insert throw
InsertCompany(db, name, date, fail) ==
  IF fail \/ \E k \in RowIds(db.companies) : db.companies[k].name = name
    THEN Threw(db)
    ELSE Returned(
           [db EXCEPT !.companies = Append(@, [name |-> name, firstSeenDate |-> date])],
           Len(db.companies) + 1)

\* mutant: the lookup finds nothing
FindCompanyNever(db, normalized) == NoId

\* db.select().from(companies).where(eq(companies.name, normalized)).limit(1)
FindCompanyByName(db, normalized) ==
  SelectFirst(db.companies, "name", normalized)

\* getOrCreateCompany(name, date), run at clock value `now`
getOrCreateCompany(db, name, date, now, fail) ==
  IF name.t # "str" THEN Threw(db)
  ELSE LET normalized == trim(name.v)
           seen == IF date # NoTime THEN date ELSE now
       IN IF normalized = <<>> \/ normalized = UnknownName
            THEN InsertCompany(db, PlaceholderCompanyName(now), seen, fail)
            ELSE LET existing == FindCompanyByName(db, normalized)
                 IN IF existing # NoId
                      THEN Returned(db, existing)
                      ELSE InsertCompany(db, normalized, seen, fail)

\* the select of getOrCreateCompany, for a name that is looked up
SelectCompany(db, name) ==
  IF name.t = "str" /\ trim(name.v) # <<>> /\ trim(name.v) # UnknownName
    THEN FindCompanyByName(db, trim(name.v))
    ELSE NoId

\* getOrCreateCompany from its select on, when the select returned
\* `existing` against an earlier state of the table
CreateCompanyAfterSelect(db, name, date, now, existing) ==
  IF name.t # "str" THEN Threw(db)
  ELSE LET normalized == trim(name.v)
           seen == IF date # NoTime THEN date ELSE now
       IN IF normalized = <<>> \/ normalized = UnknownName
            THEN InsertCompany(db, PlaceholderCompanyName(now), seen, FALSE)
          ELSE IF existing # NoId
            THEN Returned(db, existing)
          ELSE InsertCompany(db, normalized, seen, FALSE)

\* db.insert(teamMembers): unique constraint on email
InsertTeamMember(db, name, email, fail) ==
  IF fail \/ \E k \in RowIds(db.team_members) : db.team_members[k].email = email
    THEN Threw(db)
    ELSE Returned(
           [db EXCEPT !.team_members = Append(@, [name |-> name, email |-> email])],
           Len(db.team_members) + 1)

\* the placeholder e-mail synthesised from a name
PlaceholderEmail(name) ==
  LET slug == stripNonSlug(replaceSpaceRuns(toLowerCase(trim(name))))
  IN (IF slug # <<>> THEN slug ELSE <<"u","n","k","n","o","w","n">>)
       \o <<"@">> \o SHERLOCK_DOMAIN

\* mutant: the e-mail keeps its case
NormalizeEmailTrimOnly(e) == trim(e)

\* (email || "").trim().toLowerCase()
NormalizeEmail(e) == toLowerCase(trim(e))

\* mutant: the lookup selects on the name column
FindTeamMemberByName(db, email) ==
  SelectFirst(db.team_members, "name", email)

\* db.select().from(teamMembers).where(eq(teamMembers.email, email)).limit(1)
FindTeamMemberByEmail(db, email) ==
  SelectFirst(db.team_members, "email", email)

\* getOrCreateTeamMember(name, email); name and email are JSON values
getOrCreateTeamMember(db, name, email, fail) ==
  LET e == OrElse(email, Str(<<>>))
  IN IF e.t # "str" THEN Threw(db)
     ELSE LET normalizedEmail == NormalizeEmail(e.v)
          IN IF normalizedEmail = <<>> \/ ~includes(normalizedEmail, "@")
               THEN IF name.t # "str" THEN Threw(db)
                    ELSE LET placeholderEmail == PlaceholderEmail(name.v)
                             existing == FindTeamMemberByEmail(db, placeholderEmail)
                         IN IF existing # NoId
                              THEN Returned(db, existing)
                              ELSE InsertTeamMember(
                                     db,
                                     IF trim(name.v) # <<>> THEN trim(name.v)
                                                            ELSE UnknownName,
                                     placeholderEmail, fail)
               ELSE LET existing == FindTeamMemberByEmail(db, normalizedEmail)
                    IN IF existing # NoId
                         THEN Returned(db, existing)
                         ELSE IF name.t # "str" THEN Threw(db)
                              ELSE InsertTeamMember(db, trim(name.v),
                                                    normalizedEmail, fail)

\* mutant: the lookup is scoped by the company
getOrCreateProspectContactScoped(db, name, role, companyId, fail) ==
  IF name.t # "str" THEN Threw(db)
  ELSE LET matching == {k \in RowIds(db.prospect_contacts) :
                          /\ db.prospect_contacts[k].name = trim(name.v)
                          /\ db.prospect_contacts[k].companyId = companyId}
       IN IF matching # {} THEN Returned(db, CHOOSE k \in matching : TRUE)
          ELSE IF fail THEN Threw(db)
          ELSE Returned(
                 [db EXCEPT !.prospect_contacts =
                    Append(@, [name |-> trim(name.v), companyId |-> companyId])],
                 Len(db.prospect_contacts) + 1)

\* getOrCreateProspectContact(name, role, companyId): looked up by name only
getOrCreateProspectContact(db, name, role, companyId, fail) ==
  IF name.t # "str" THEN Threw(db)
  ELSE LET existing ==
             SelectFirst(db.prospect_contacts, "name", trim(name.v))
       IN IF existing # NoId THEN Returned(db, existing)
          ELSE IF fail THEN Threw(db)
          ELSE Returned(
                 [db EXCEPT !.prospect_contacts =
                    Append(@, [name |-> trim(name.v), companyId |-> companyId])],
                 Len(db.prospect_contacts) + 1)

\* ------------------------------------------------------------------------
\* storeExtraction
\* ------------------------------------------------------------------------

\* an injected failure of one link insert: the loop and the item position
NoFault == [loop |-> "none", k |-> 0]
FaultAt(loop, k) == [loop |-> loop, k |-> k]

\* result of a loop of storeExtraction: the store, and whether an exception
\* left the loop (and so storeExtraction)
LoopDone(db) == [db |-> db, threw |-> FALSE]
LoopThrew(db) == [db |-> db, threw |-> TRUE]

\* mutant: the id is handed out and the row is not written
InsertCallDeferred(db, rawMeetingId, companyId, extraction, fail) ==
  IF fail THEN Threw(db) ELSE Returned(db, Len(db.calls) + 1)

\* step 2: db.insert(calls).values({...}).returning(id)
InsertCall(db, rawMeetingId, companyId, extraction, fail) ==
  IF fail THEN Threw(db)
  ELSE Returned(
         [db EXCEPT !.calls =
            Append(@, [rawMeetingId |-> rawMeetingId,
                       companyId |-> companyId,
                       callQualityScore |-> extraction.call_quality_score])],
         Len(db.calls) + 1)

\* step 3: team members.  A null element makes tm.name throw inside the try
\* and again inside the catch, which has no guard of its own.
RECURSIVE LinkTeamMembers(_, _, _, _, _)
LinkTeamMembers(db, callId, items, k, fault) ==
  IF k > Len(items) THEN LoopDone(db)
  ELSE LET tm == items[k]
       IN IF tm.t = "null" THEN LoopThrew(db)
          ELSE LET r == getOrCreateTeamMember(db, Prop(tm, "name"),
                                              Prop(tm, "email"), FALSE)
                   after ==
                     IF r.threw \/ fault = FaultAt("team_members", k)
                       THEN r.db
                       ELSE [r.db EXCEPT !.call_team_members =
                               Append(@, [callId |-> callId, teamMemberId |-> r.id])]
               IN LinkTeamMembers(after, callId, items, k + 1, fault)

\* step 4: prospect contacts; same catch block shape as step 3
RECURSIVE LinkProspects(_, _, _, _, _, _)
LinkProspects(db, callId, companyId, items, k, fault) ==
  IF k > Len(items) THEN LoopDone(db)
  ELSE LET pc == items[k]
       IN IF pc.t = "null" THEN LoopThrew(db)
          ELSE LET r == getOrCreateProspectContact(db, Prop(pc, "name"),
                                                   Prop(pc, "role"), companyId, FALSE)
                   after ==
                     IF r.threw \/ fault = FaultAt("prospect_names", k)
                       THEN r.db
                       ELSE [r.db EXCEPT !.call_prospect_contacts =
                               Append(@, [callId |-> callId,
                                          prospectContactId |-> r.id])]
               IN LinkProspects(after, callId, companyId, items, k + 1, fault)

\* mutant: a name that is not seeded is inserted into technologies first
RECURSIVE LinkTechnologiesUpsert(_, _, _, _, _)
LinkTechnologiesUpsert(db, callId, items, k, fault) ==
  IF k > Len(items) THEN LoopDone(db)
  ELSE LET known == getTechnologyId(db, items[k]) # NoId
           db1 == IF known \/ items[k].t # "tok" THEN db
                  ELSE [db EXCEPT !.technologies = Append(@, [name |-> items[k].v])]
           techId == getTechnologyId(db1, items[k])
           after ==
             IF techId = NoId \/ fault = FaultAt("tech_stack", k)
               THEN db1
               ELSE [db1 EXCEPT !.call_technologies =
                       Append(@, [callId |-> callId, technologyId |-> techId])]
       IN LinkTechnologiesUpsert(after, callId, items, k + 1, fault)

\* mutant: a technology is linked to a call once
RECURSIVE LinkTechnologiesOnce(_, _, _, _, _)
LinkTechnologiesOnce(db, callId, items, k, fault) ==
  IF k > Len(items) THEN LoopDone(db)
  ELSE LET techId == getTechnologyId(db, items[k])
           link == [callId |-> callId, technologyId |-> techId]
           after ==
             IF \/ techId = NoId
                \/ fault = FaultAt("tech_stack", k)
                \/ \E j \in RowIds(db.call_technologies) : db.call_technologies[j] = link
               THEN db
               ELSE [db EXCEPT !.call_technologies = Append(@, link)]
       IN LinkTechnologiesOnce(after, callId, items, k + 1, fault)

\* step 5: technologies; names that are not seeded are skipped
RECURSIVE LinkTechnologies(_, _, _, _, _)
LinkTechnologies(db, callId, items, k, fault) ==
  IF k > Len(items) THEN LoopDone(db)
  ELSE LET techId == getTechnologyId(db, items[k])
           after ==
             IF techId = NoId \/ fault = FaultAt("tech_stack", k)
               THEN db
               ELSE [db EXCEPT !.call_technologies =
                       Append(@, [callId |-> callId, technologyId |-> techId])]
       IN LinkTechnologies(after, callId, items, k + 1, fault)

\* step 6: objections; keys that are not seeded are skipped
RECURSIVE LinkObjections(_, _, _, _, _)
LinkObjections(db, callId, items, k, fault) ==
  IF k > Len(items) THEN LoopDone(db)
  ELSE LET objId == getObjectionId(db, Prop(items[k], "type_key"))
           after ==
             IF objId = NoId \/ fault = FaultAt("objections", k)
               THEN db
               ELSE [db EXCEPT !.call_objections =
                       Append(@, [callId |-> callId, objectionId |-> objId])]
       IN LinkObjections(after, callId, items, k + 1, fault)

\* a NOT NULL text column rejects a missing or null value
IsText(x) == x.t \in {"str", "tok"}

\* step 7: follow-up actions
RECURSIVE InsertFollowUps(_, _, _, _, _)
InsertFollowUps(db, callId, items, k, fault) ==
  IF k > Len(items) THEN LoopDone(db)
  ELSE LET actionText == Prop(items[k], "action_text")
           after ==
             IF ~IsText(actionText) \/ fault = FaultAt("follow_up_actions", k)
               THEN db
               ELSE [db EXCEPT !.call_follow_ups =
                       Append(@, [callId |-> callId, actionText |-> actionText.v])]
       IN InsertFollowUps(after, callId, items, k + 1, fault)

\* step 8: prospect questions; blank questions are skipped
RECURSIVE InsertQuestions(_, _, _, _, _)
InsertQuestions(db, callId, items, k, fault) ==
  IF k > Len(items) THEN LoopDone(db)
  ELSE LET q == items[k]
           after ==
             IF q.t # "str" \/ trim(q.v) = <<>>
                  \/ fault = FaultAt("prospect_questions", k)
               THEN db
               ELSE [db EXCEPT !.prospect_questions =
                       Append(@, [callId |-> callId, questionText |-> trim(q.v)])]
       IN InsertQuestions(after, callId, items, k + 1, fault)

\* step 9: key quotes
RECURSIVE InsertKeyQuotes(_, _, _, _, _)
InsertKeyQuotes(db, callId, items, k, fault) ==
  IF k > Len(items) THEN LoopDone(db)
  ELSE LET quoteText == Prop(items[k], "quote_text")
           after ==
             IF ~IsText(quoteText) \/ fault = FaultAt("key_quotes", k)
               THEN db
               ELSE [db EXCEPT !.key_quotes =
                       Append(@, [callId |-> callId, quoteText |-> quoteText.v])]
       IN InsertKeyQuotes(after, callId, items, k + 1, fault)

\* step 10: counter responses; they need a seeded objection key
RECURSIVE InsertCounterResponses(_, _, _, _, _)
InsertCounterResponses(db, callId, items, k, fault) ==
  IF k > Len(items) THEN LoopDone(db)
  ELSE LET objId == getObjectionId(db, Prop(items[k], "objection_type_key"))
           after ==
             IF objId = NoId \/ ~IsText(Prop(items[k], "response_text"))
                  \/ fault = FaultAt("counter_responses", k)
               THEN db
               ELSE [db EXCEPT !.counter_responses =
                       Append(@, [callId |-> callId, objectionId |-> objId])]
       IN InsertCounterResponses(after, callId, items, k + 1, fault)

\* steps 3 to 10 in the order of the code; an exception that leaves a loop
\* skips the loops after it
StoreChildren(db, callId, companyId, extraction, fault) ==
  LET s3 == LinkTeamMembers(db, callId, extraction.team_members, 1, fault)
  IN IF s3.threw THEN s3
     ELSE LET s4 == LinkProspects(s3.db, callId, companyId,
                                  extraction.prospect_names, 1, fault)
          IN IF s4.threw THEN s4
             ELSE LET s5 == LinkTechnologies(s4.db, callId, extraction.tech_stack, 1, fault)
                      s6 == LinkObjections(s5.db, callId, extraction.objections, 1, fault)
                      s7 == InsertFollowUps(s6.db, callId,
                                            extraction.follow_up_actions, 1, fault)
                      s8 == InsertQuestions(s7.db, callId,
                                            extraction.prospect_questions, 1, fault)
                      s9 == InsertKeyQuotes(s8.db, callId, extraction.key_quotes, 1, fault)
                  IN InsertCounterResponses(s9.db, callId,
                                            extraction.counter_responses, 1, fault)

\* ------------------------------------------------------------------------
\* Classifier.  A text is a sequence of lower-case words; a keyword is a
\* sequence of words and matches a text in which its words occur in a row
\* (String.includes at word granularity).
\* ------------------------------------------------------------------------

SALES_KEYWORDS ==
  { <<"audit">>, <<"security", "audit">>, <<"smart", "contract">>, <<"retainer">>,
    <<"lifecycle">>, <<"pricing">>, <<"proposal">>, <<"scope">>, <<"timeline">>,
    <<"engagement">>, <<"quote">>, <<"budget">>, <<"deal">>, <<"contract">>,
    <<"sow">>, <<"statement", "of", "work">>, <<"penetration", "test">>,
    <<"code", "review">>, <<"security", "review">>, <<"sherlock">>, <<"coverage">>,
    <<"protocol">>, <<"defi">> }

PARTNER_KEYWORDS ==
  { <<"partnership">>, <<"vendor">>, <<"integration">>, <<"conference">>,
    <<"event">>, <<"sponsor">>, <<"collaborate">>, <<"referral">>, <<"reseller">> }

INTERNAL_KEYWORDS ==
  { <<"standup">>, <<"sprint">>, <<"retro">>, <<"retrospective">>, <<"1:1">>,
    <<"one", "on", "one">>, <<"team", "sync">>, <<"all", "hands">>,
    <<"weekly", "sync">>, <<"daily", "standup">> }

\* lower.includes(kw)
TextIncludes(text, kw) ==
  \E at \in 1..(Len(text) - Len(kw) + 1) :
    \A j \in 1..Len(kw) : text[at + j - 1] = kw[j]

\* mutant: every occurrence of a keyword counts
countKeywordOccurrences(text, keywords) ==
  Cardinality({ <<kw, at>> \in keywords \X (1..Len(text)) :
                  /\ at + Len(kw) - 1 <= Len(text)
                  /\ \A j \in 1..Len(kw) : text[at + j - 1] = kw[j] })

\* countKeywordMatches: the number of distinct keywords that occur
countKeywordMatches(text, keywords) ==
  Cardinality({kw \in keywords : TextIncludes(text, kw)})

\* e.endsWith(`@${SHERLOCK_DOMAIN}`)
EndsWithSherlock(e) ==
  LET suffix == <<"@">> \o SHERLOCK_DOMAIN
  IN Len(e) >= Len(suffix)
       /\ SubSeq(e, Len(e) - Len(suffix) + 1, Len(e)) = suffix

\* the reads of getAllEmails that throw on malformed input: toLowerCase on a
\* truthy host or organizer that is no string
EmailsMalformed(data) ==
  \/ Truthy(data.host_email) /\ data.host_email.t # "str"
  \/ Truthy(data.organizer_email) /\ data.organizer_email.t # "str"

\* getAllEmails(data): the distinct lower-cased addresses
getAllEmails(data) ==
  (IF Truthy(data.host_email) THEN {toLowerCase(data.host_email.v)} ELSE {})
    \cup (IF Truthy(data.organizer_email)
            THEN {toLowerCase(data.organizer_email.v)} ELSE {})
    \cup {toLowerCase(data.participants[k]) :
            k \in {j \in 1..Len(data.participants) :
                     includes(data.participants[j], "@")}}
    \cup {toLowerCase(data.meeting_attendees[k]) :
            k \in {j \in 1..Len(data.meeting_attendees) :
                     data.meeting_attendees[j] # <<>>}}

\* "inconclusive" stands for the null result of classifyByRules
Inconclusive == "inconclusive"

\* mutant: the early return for internal meetings is missing
IsAllInternalNever(sherlockEmails, externalEmails) == FALSE

\* sherlockEmails.length > 0 && externalEmails.length === 0
IsAllInternal(sherlockEmails, externalEmails) ==
  sherlockEmails # {} /\ externalEmails = {}

\* classifyByRules(data)
classifyByRules(data) ==
  LET emails == getAllEmails(data)
      sherlockEmails == {e \in emails : EndsWithSherlock(e)}
      externalEmails == {e \in emails : ~EndsWithSherlock(e)}
      corpus == data.title \o data.summary.meeting_type \o data.summary.overview
                  \o data.summary.keywords \o data.summary.short_summary
                  \o data.summary.topics_discussed
      salesScore == countKeywordMatches(corpus, SALES_KEYWORDS)
      partnerScore == countKeywordMatches(corpus, PARTNER_KEYWORDS)
      internalScore == countKeywordMatches(corpus, INTERNAL_KEYWORDS)
      meetingType == data.summary.meeting_type
  IN IF IsAllInternal(sherlockEmails, externalEmails) THEN "internal"
     ELSE IF corpus = <<>> THEN Inconclusive
     ELSE IF salesScore >= 3 /\ salesScore > partnerScore /\ salesScore > internalScore
       THEN "sales_call"
     ELSE IF partnerScore >= 2 /\ partnerScore > salesScore THEN "partner_call"
     ELSE IF internalScore >= 2 /\ internalScore > salesScore THEN "internal"
     ELSE IF \/ TextIncludes(meetingType, <<"sales">>)
             \/ TextIncludes(meetingType, <<"discovery">>)
             \/ TextIncludes(meetingType, <<"pitch">>)
       THEN "sales_call"
     ELSE IF \/ TextIncludes(meetingType, <<"internal">>)
             \/ TextIncludes(meetingType, <<"standup">>)
             \/ TextIncludes(meetingType, <<"team">>)
       THEN "internal"
     ELSE IF salesScore >= 1 /\ externalEmails # {} THEN "sales_call"
     ELSE Inconclusive

\* the four category tokens and their spelling
Categories == {"sales_call", "partner_call", "internal", "other"}

CategoryChars ==
  [ sales_call |-> <<"s","a","l","e","s","_","c","a","l","l">>,
    partner_call |-> <<"p","a","r","t","n","e","r","_","c","a","l","l">>,
    internal |-> <<"i","n","t","e","r","n","a","l">>,
    other |-> <<"o","t","h","e","r">> ]

\* mutant: the answer is validated as it came
classifyByLLMExact(response) ==
  IF \E c \in Categories : CategoryChars[c] = response
    THEN CHOOSE c \in Categories : CategoryChars[c] = response
    ELSE "other"

\* classifyByLLM, after the model answered `response`:
\* trim, lower-case, drop everything but a-z and underscore, validate
classifyByLLM(response) ==
  LET text == SelectSeq(toLowerCase(trim(response)),
                        LAMBDA c : IsLowerAZ(c) \/ c = "_")
  IN IF \E c \in Categories : CategoryChars[c] = text
       THEN CHOOSE c \in Categories : CategoryChars[c] = text
       ELSE "other"

\* ------------------------------------------------------------------------
\* Inputs: meeting blobs and model responses
\* ------------------------------------------------------------------------

InternalAddr(local) == <<local, "@">> \o SHERLOCK_DOMAIN
ExternalAddr(local) == <<local, "@", "x", ".", "i", "o">>

EmptySummary ==
  [ meeting_type |-> <<>>, overview |-> <<>>, keywords |-> <<>>,
    short_summary |-> <<>>, topics_discussed |-> <<>> ]

\* minimum transcript length for an extraction
MIN_TRANSCRIPT == 50

\* the transcripts Fireflies may return, which are the raw_json blobs
\* ingestion stores (transcript_text is kept as its length, date as a clock
\* value or NoTime, duration in tenths of a minute)
MeetingCatalogue ==
  << \* 1: three sales keywords, one external participant, a transcript of
     \* exactly the minimum length
     [ host_email |-> Str(InternalAddr("a")), organizer_email |-> Undef,
       participants |-> <<ExternalAddr("b")>>, meeting_attendees |-> <<>>,
       title |-> <<"acme", "audit">>,
       summary |-> [EmptySummary EXCEPT !.keywords = <<"pricing", "scope">>],
       transcript_len |-> MIN_TRANSCRIPT, date |-> 7,
       duration |-> 305 ],
     \* 2: mixed participants and no text at all: the rules are inconclusive
     [ host_email |-> Str(InternalAddr("a")), organizer_email |-> Undef,
       participants |-> <<ExternalAddr("b")>>, meeting_attendees |-> <<>>,
       title |-> <<>>, summary |-> EmptySummary,
       transcript_len |-> 400, date |-> NoTime,
       duration |-> 0 ],
     \* 3: a sales meeting type, transcript below the minimum
     [ host_email |-> Undef, organizer_email |-> Str(InternalAddr("A")),
       participants |-> <<ExternalAddr("b")>>, meeting_attendees |-> <<>>,
       title |-> <<"intro">>,
       summary |-> [EmptySummary EXCEPT !.meeting_type = <<"sales", "call">>],
       transcript_len |-> 20, date |-> 7,
       duration |-> 124 ],
     \* 4: every participant is internal
     [ host_email |-> Str(InternalAddr("a")), organizer_email |-> Undef,
       participants |-> <<InternalAddr("A")>>,
       meeting_attendees |-> <<InternalAddr("c"), InternalAddr("C")>>,
       title |-> <<"pricing", "proposal", "audit">>, summary |-> EmptySummary,
       transcript_len |-> 400, date |-> 7,
       duration |-> 600 ],
     \* 5: malformed blob: host_email is a number
     [ host_email |-> Num(7), organizer_email |-> Undef,
       participants |-> <<>>, meeting_attendees |-> <<>>,
       title |-> <<"audit">>, summary |-> EmptySummary,
       transcript_len |-> 400, date |-> 7,
       duration |-> 10 ],
     \* 6: raw_json is null, read as {}: no address, no text, no transcript
     [ host_email |-> Undef, organizer_email |-> Undef,
       participants |-> <<>>, meeting_attendees |-> <<>>,
       title |-> <<>>, summary |-> EmptySummary,
       transcript_len |-> 0, date |-> NoTime,
       duration |-> 0 ],
     \* 7: the only outside address is an excluded one (a note-taking bot)
     [ host_email |-> Str(InternalAddr("a")), organizer_email |-> Undef,
       participants |-> <<ExternalAddr("n")>>, meeting_attendees |-> <<>>,
       title |-> <<"weekly", "sync", "standup">>, summary |-> EmptySummary,
       transcript_len |-> 400, date |-> 7,
       duration |-> 450 ] >>

\* a fetched transcript: its Fireflies id and its content
Transcript(id, blob) == [id |-> id, blob |-> blob]

\* a null duration
NoDuration == -1

\* Math.round on tenths
Round(tenths) == (tenths + 5) \div 10

\* the columns ingestion writes from a transcript, on insert and on conflict
RawMeetingValues(t) ==
  LET data == MeetingCatalogue[t.blob]
  IN [ title |-> data.title,
       date |-> IF data.date = NoTime \/ data.date = 0 THEN NoTime ELSE data.date,
       duration |-> IF data.duration = 0 THEN NoDuration ELSE Round(data.duration),
       rawJson |-> t.blob ]

\* the row a first ingestion of a transcript inserts
NewRawMeeting(t) ==
  LET v == RawMeetingValues(t)
  IN [ firefliesId |-> t.id, title |-> v.title, date |-> v.date,
       duration |-> v.duration, rawJson |-> v.rawJson,
       classification |-> "null", processedAt |-> NoTime ]

\* answers of the classification model; ApiError stands for a failed call
ApiError == <<"!">>

ClassifierResponses ==
  { <<"s","a","l","e","s","_","c","a","l","l">>,
    <<" ","I","n","t","e","r","n","a","l",".","\n">>,
    <<"p","a","r","t","n","e","r","_","c","a","l","l">>,
    <<"s","a","l","e","s"," ","c","a","l","l">>,
    ApiError }

Acme == <<"A","c","m","e">>
AlB == <<"A","l"," ","B">>

\* answers of the extraction model: text before the JSON (lead), and the
\* body, which is a JSON value, NotJson, or CallFailed when the call throws
NotJson == [t |-> "prose"]
CallFailed == [t |-> "error"]

Response(lead, body) == [lead |-> lead, body |-> body]

ExtractionResponses ==
  << \* 1: plain prose
     Response(FALSE, NotJson),
     \* 2: a full object; one key of each closed vocabulary is not seeded
     Response(FALSE, Obj(
       [ company_name |-> Str(<<" ">> \o Acme),
         call_quality_score |-> Num(12),
         team_members |-> Arr(<< Obj([name |-> Str(AlB), email |-> Null]),
                                 Obj([name |-> Str(AlB)]) >>),
         prospect_names |-> Arr(<< Obj([name |-> Str(<<"P">>)]) >>),
         tech_stack |-> Arr(<< Tok("Cobol"), Tok("Solidity"), Tok("Solidity") >>),
         prospect_questions |-> Arr(<< Str(<<" ">>), Str(<<"q","?">>),
                                       Str(<<"q","?">>) >>),
         key_quotes |-> Arr(<< Obj([quote_text |-> Tok("we ship in May")]) >>),
         objections |-> Arr(<< Obj([type_key |-> Tok("made_up")]),
                               Obj([type_key |-> Tok("budget_timing")]),
                               Obj([type_key |-> Tok("other")]) >>),
         follow_up_actions |-> Arr(<< Obj([action_text |-> Tok("send sow")]) >>),
         counter_responses |-> Arr(<<
           Obj([objection_type_key |-> Tok("made_up"), response_text |-> Tok("r1")]),
           Obj([objection_type_key |-> Tok("other"), response_text |-> Tok("r2")]) >>) ])),
     \* 3: an array with a null element
     Response(FALSE, Obj(
       [ company_name |-> Str(Acme),
         call_quality_score |-> Num(0),
         team_members |-> Arr(<< Null >>) ])),
     \* 4: valid JSON that is no object
     Response(FALSE, Num(5)),
     \* 5: the JSON value null
     Response(FALSE, Null),
     \* 6: a sentence before the JSON
     Response(TRUE, Obj([company_name |-> Str(Acme)])),
     \* 7: the call to the model fails
     Response(FALSE, CallFailed),
     \* 8 to 10: valid JSON that is a boolean, an array, a string
     Response(FALSE, Bool(TRUE)),
     Response(FALSE, Arr(<< Obj([company_name |-> Str(Acme)]) >>)),
     Response(FALSE, Tok("n/a")) >>

\* mutant: a parsed value that is no object counts as a parse failure
extractSalesCallObjectsOnly(response) ==
  IF response.lead \/ response.body.t # "obj"
    THEN [ok |-> FALSE, result |-> normalizeResult(Undef)]
    ELSE [ok |-> TRUE, result |-> normalizeResult(response.body)]

\* extractSalesCall after the model answered: strip fences, JSON.parse and
\* normalizeResult inside one try; a throw becomes "Failed to parse"
extractSalesCall(response) ==
  IF response.lead \/ response.body.t \in {"error", "prose", "null"}
    THEN [ok |-> FALSE, result |-> normalizeResult(Undef)]
    ELSE [ok |-> TRUE, result |-> normalizeResult(response.body)]

\* ------------------------------------------------------------------------
\* State
\* ------------------------------------------------------------------------

\* API_DELAY (ms) slept before the extraction call
API_DELAY == 1500

VARIABLES
  db,              \* the relational store: one sequence of rows per table
  now,             \* the clock (Date.now())
  pc,              \* position of the driver process
  unprocessed,     \* main: rows returned by the backlog query
  i,               \* main: loop index (1-based)
  classification,  \* main: classification of the current record
  extraction,      \* main: ExtractionResult of the current record
  companyId,       \* storeExtraction: resolved company
  callId,          \* storeExtraction: id of the inserted Call
  stats,           \* main: counters of the run
  caught,          \* main: the catch blocks entered in this run, per record
  apiLog,          \* the model calls and delays of this run, in order
  pull,            \* ingestion (pull-fireflies): position, counters, loop state
  runs,            \* driver runs started so far
  faults,          \* failures injected so far
  resolved,        \* resolver harness: the resolutions made, in order
  raw,             \* normaliser harness: the parsed model output
  normalized,      \* normaliser harness: normalizeResult(raw), once computed
  sample,          \* classifier harness: the meeting blob under classification
  verdict,         \* classifier harness: what the two tiers returned
  peer,            \* a second driver process running at the same time
  repair           \* the team-member repair script: position, loop state

locals == <<unprocessed, i, classification, extraction, companyId, callId, stats, caught,
            apiLog>>
harness == <<resolved, raw, normalized, sample, verdict>>
vars == <<db, now, pc, locals, runs, faults, harness, pull, peer, repair>>

NoExtraction == normalizeResult(Undef)

ZeroStats ==
  [ total |-> 0, sales_call |-> 0, partner_call |-> 0, internal |-> 0,
    other |-> 0, extracted |-> 0, extractionErrors |-> 0,
    classificationLLMCalls |-> 0 ]

\* the store after seed.ts, with the meetings ingestion stored
SeededDb(blobs) ==
  [ raw_meetings |-> [m \in Meetings |-> NewRawMeeting(Transcript(m, blobs[m]))],
    companies |-> <<>>,
    team_members |-> <<>>,
    prospect_contacts |-> <<>>,
    objections |-> [k \in 1..Len(OBJECTION_SEEDS) |-> [typeKey |-> OBJECTION_SEEDS[k]]],
    technologies |-> [k \in 1..Len(TECHNOLOGY_SEEDS) |-> [name |-> TECHNOLOGY_SEEDS[k]]],
    calls |-> <<>>,
    call_team_members |-> <<>>,
    call_prospect_contacts |-> <<>>,
    call_technologies |-> <<>>,
    call_objections |-> <<>>,
    call_follow_ups |-> <<>>,
    prospect_questions |-> <<>>,
    key_quotes |-> <<>>,
    counter_responses |-> <<>> ]

InitLocals ==
  /\ unprocessed = <<>>
  /\ i = 0
  /\ classification = "null"
  /\ extraction = NoExtraction
  /\ companyId = NoId
  /\ callId = NoId
  /\ stats = ZeroStats
  /\ caught = {}
  /\ apiLog = <<>>

\* the classifier harness before classifyMeeting is called
NoVerdict == [rules |-> "none", response |-> <<>>, llm |-> "none"]

InitHarness ==
  /\ resolved = <<>>
  /\ raw = Undef
  /\ normalized = NoExtraction
  /\ sample = MeetingCatalogue[6]
  /\ verdict = NoVerdict

\* no second driver process was started
NoPeer ==
  [ pc |-> "idle", unprocessed |-> <<>>, i |-> 0, classification |-> "null",
    extraction |-> NoExtraction, existing |-> NoId, companyId |-> NoId,
    callId |-> NoId, caught |-> {} ]

\* the repair script has not run
NoRepair ==
  [ pc |-> "idle", runs |-> 0, allCalls |-> <<>>, k |-> 0,
    linked |-> 0, skipped |-> 0, history |-> <<>> ]

\* ingestion has not run in this process
NoPull ==
  [ pc |-> "idle", runs |-> 0, filtered |-> <<>>, k |-> 0,
    stats |-> [total |-> 0, noSherlock |-> 0, noExternal |-> 0,
               excludedOnly |-> 0, passed |-> 0],
    inserted |-> 0, skipped |-> 0 ]

\* the meetings hold consecutive blobs of the catalogue, from any first one
BlobsFrom(first) ==
  [m \in Meetings |-> ((first + m - 2) % Len(MeetingCatalogue)) + 1]

Init ==
  /\ \E first \in 1..Len(MeetingCatalogue) : db = SeededDb(BlobsFrom(first))
  /\ now = 0
  /\ pc = "idle"
  /\ InitLocals
  /\ runs = 0
  /\ faults = 0
  /\ InitHarness
  /\ pull = NoPull
  /\ peer = NoPeer
  /\ repair = NoRepair

\* the blob of a backlog row
Blob(row) == MeetingCatalogue[row.rawJson]

\* ------------------------------------------------------------------------
\* main
\* ------------------------------------------------------------------------

Running == {"classify", "write_classification", "extract", "store_company",
            "store_call", "store_children", "mark_processed"}

\* mutant: the query without its WHERE clause
BacklogUnfiltered(d) ==
  [m \in Meetings |-> [id |-> m, rawJson |-> d.raw_meetings[m].rawJson]]

\* mutant: the backlog is selected by the missing classification
BacklogUnclassified(d) ==
  LET ids == {m \in Meetings : d.raw_meetings[m].classification = "null"}
      row(m) == [id |-> m, rawJson |-> d.raw_meetings[m].rawJson]
      RECURSIVE from(_)
      from(m) == IF m > NumMeetings THEN <<>>
                 ELSE (IF m \in ids THEN <<row(m)>> ELSE <<>>) \o from(m + 1)
  IN from(1)

\* rows WHERE processed_at IS NULL, in table order
Backlog(d) ==
  LET ids == {m \in Meetings : d.raw_meetings[m].processedAt = NoTime}
      row(m) == [id |-> m, rawJson |-> d.raw_meetings[m].rawJson]
      RECURSIVE from(_)
      from(m) == IF m > NumMeetings THEN <<>>
                 ELSE (IF m \in ids THEN <<row(m)>> ELSE <<>>) \o from(m + 1)
  IN from(1)

\* a process starts, queries the backlog and exits at once when it is empty
StartRun ==
  /\ pc \in {"idle", "done", "crashed"}
  /\ runs < MaxRuns
  /\ runs' = runs + 1
  /\ now' = now + 1
  /\ unprocessed' = Backlog(db)
  /\ i' = 1
  /\ stats' = [ZeroStats EXCEPT !.total = Len(Backlog(db))]
  /\ pc' = IF Backlog(db) = <<>> THEN "done" ELSE "classify"
  /\ classification' = "null"
  /\ extraction' = NoExtraction
  /\ companyId' = NoId
  /\ callId' = NoId
  /\ caught' = {}
  /\ apiLog' = <<>>
  /\ UNCHANGED <<db, faults, harness, pull, peer, repair>>

\* an entry of apiLog: a request to the model, or the delay before one
ApiEvent(id, api) == [id |-> id, api |-> api]

\* stats[classification]++, then on to the write-back
Classified(c) ==
  /\ classification' = c
  /\ stats' = [stats EXCEPT ![c] = @ + 1]
  /\ pc' = "write_classification"
  /\ UNCHANGED <<db, now, unprocessed, i, extraction, companyId, callId,
                 runs, faults, harness, pull, peer, repair>>

\* mutant: the catch block gives up on the run
AfterClassificationCatchAborts == "crashed"

\* mutant: the catch block goes straight to the mark-processed step
AfterClassificationCatchSkipsWrite == "mark_processed"

\* where control goes after the catch block of step 1
AfterClassificationCatch == "write_classification"

\* the catch block of step 1: classification = "other", counted as other
ClassificationFailed ==
  /\ caught' = caught \cup {[id |-> unprocessed[i].id, step |-> "classification"]}
  /\ classification' = "other"
  /\ stats' = [stats EXCEPT !.other = @ + 1]
  /\ pc' = AfterClassificationCatch
  /\ UNCHANGED <<db, now, unprocessed, i, extraction, companyId, callId,
                 runs, faults, harness, pull, peer, repair>>

\* mutant: the model is asked whatever the rules returned
NeedsLLMAlways(ruleResult) == TRUE

\* classifyMeeting: the model is asked only when the rules return null
NeedsLLM(ruleResult) == ruleResult = Inconclusive

\* classifyMeeting inside the driver's try/catch: rules first, the model only
\* when the rules are inconclusive; any throw becomes "other"
Classify ==
  /\ pc = "classify"
  /\ LET data == Blob(unprocessed[i])
     IN IF EmailsMalformed(data) THEN ClassificationFailed /\ UNCHANGED apiLog
        ELSE IF ~NeedsLLM(classifyByRules(data))
          THEN Classified(classifyByRules(data)) /\ UNCHANGED <<caught, apiLog>>
        ELSE /\ apiLog' = Append(apiLog, ApiEvent(unprocessed[i].id, "classify"))
             /\ \E response \in ClassifierResponses :
                  IF response = ApiError THEN ClassificationFailed
                  ELSE Classified(classifyByLLM(response)) /\ UNCHANGED caught

\* mutant: the write-back is left to the end of the run
SetClassificationNowhere(d, id, c) == d

\* mutant: the update without its WHERE clause
SetClassificationEverywhere(d, id, c) ==
  [d EXCEPT !.raw_meetings = [m \in Meetings |-> [@[m] EXCEPT !.classification = c]]]

\* db.update(rawMeetings).set({ classification }).where(eq(id, meeting.id))
SetClassification(d, id, c) ==
  [d EXCEPT !.raw_meetings[id].classification = c]

\* mutant: the timestamp goes to the date column
SetProcessedAtAsDate(d, id, t) ==
  [d EXCEPT !.raw_meetings[id].date = t]

\* db.update(rawMeetings).set({ processedAt: new Date() }).where(eq(id, meeting.id))
SetProcessedAt(d, id, t) ==
  [d EXCEPT !.raw_meetings[id].processedAt = t]

\* step 2 is entered for sales calls only
NextAfterClassification(c) ==
  IF c = "sales_call" THEN "extract" ELSE "mark_processed"

WriteClassification ==
  /\ pc = "write_classification"
  /\ db' = SetClassification(db, unprocessed[i].id, classification)
  /\ pc' = NextAfterClassification(classification)
  /\ UNCHANGED <<now, locals, runs, faults, harness, pull, peer, repair>>

\* mutant: the catch block leaves the loop
AfterExtractionCatchBreaks == "done"

\* where control goes after the catch block of step 2
AfterExtractionCatch == "mark_processed"

\* the catch block of step 2: count the error, go on to mark the record
ExtractionError ==
  /\ stats' = [stats EXCEPT !.extractionErrors = @ + 1]
  /\ caught' = caught \cup {[id |-> unprocessed[i].id, step |-> "extraction"]}
  /\ pc' = AfterExtractionCatch

\* mutant: no transcript is too short
TooShortNever(len) == FALSE

\* !transcript || transcript.length < 50
TooShort(len) == len < MIN_TRANSCRIPT

\* step 2 up to the parsed result: the length check, the delay, the model call
Extract ==
  /\ pc = "extract"
  /\ LET data == Blob(unprocessed[i])
     IN IF TooShort(data.transcript_len)
          THEN /\ pc' = "mark_processed"
               /\ UNCHANGED <<db, now, locals, runs, faults, harness, pull, peer, repair>>
          ELSE /\ now' = now + API_DELAY
               /\ apiLog' = apiLog \o << ApiEvent(unprocessed[i].id, "sleep"),
                                         ApiEvent(unprocessed[i].id, "extract") >>
               /\ \E k \in 1..Len(ExtractionResponses) :
                    IF ~extractSalesCall(ExtractionResponses[k]).ok
                      THEN ExtractionError /\ UNCHANGED extraction
                      ELSE /\ extraction' = extractSalesCall(ExtractionResponses[k]).result
                           /\ pc' = "store_company"
                           /\ UNCHANGED <<stats, caught>>
               /\ UNCHANGED <<db, unprocessed, i, classification, companyId, callId,
                              runs, faults, harness, pull, peer, repair>>

\* whether the next store write fails for a reason outside the data
InjectFault(fail) ==
  /\ fail => faults < MaxFaults
  /\ faults' = IF fail THEN faults + 1 ELSE faults

\* storeExtraction step 1
StoreCompany ==
  /\ pc = "store_company"
  /\ \E fail \in BOOLEAN :
       /\ InjectFault(fail)
       /\ LET r == getOrCreateCompany(db, extraction.company_name,
                                      Blob(unprocessed[i]).date, now, fail)
          IN /\ db' = r.db
             /\ IF r.threw
                  THEN ExtractionError /\ UNCHANGED companyId
                  ELSE companyId' = r.id /\ pc' = "store_call" /\ UNCHANGED <<stats, caught>>
  /\ UNCHANGED <<now, unprocessed, i, classification, extraction, callId, apiLog,
                 runs, harness, pull, peer, repair>>

\* storeExtraction step 2
StoreCall ==
  /\ pc = "store_call"
  /\ \E fail \in BOOLEAN :
       /\ InjectFault(fail)
       /\ LET r == InsertCall(db, unprocessed[i].id, companyId, extraction, fail)
          IN /\ db' = r.db
             /\ IF r.threw
                  THEN ExtractionError /\ UNCHANGED callId
                  ELSE callId' = r.id /\ pc' = "store_children" /\ UNCHANGED <<stats, caught>>
  /\ UNCHANGED <<now, unprocessed, i, classification, extraction, companyId, apiLog,
                 runs, harness, pull, peer, repair>>

\* the link inserts a failure can be injected into
FaultChoices(e) ==
  {NoFault}
    \cup {FaultAt("team_members", k) : k \in 1..Len(e.team_members)}
    \cup {FaultAt("tech_stack", k) : k \in 1..Len(e.tech_stack)}
    \cup {FaultAt("objections", k) : k \in 1..Len(e.objections)}
    \cup {FaultAt("counter_responses", k) : k \in 1..Len(e.counter_responses)}

\* storeExtraction steps 3 to 10, then back in main: stats.extracted++ or the
\* catch block
StoreLinks ==
  /\ pc = "store_children"
  /\ \E fault \in FaultChoices(extraction) :
       /\ InjectFault(fault # NoFault)
       /\ LET r == StoreChildren(db, callId, companyId, extraction, fault)
          IN /\ db' = r.db
             /\ IF r.threw
                  THEN ExtractionError
                  ELSE /\ stats' = [stats EXCEPT !.extracted = @ + 1]
                       /\ pc' = "mark_processed"
                       /\ UNCHANGED caught
  /\ UNCHANGED <<now, unprocessed, i, classification, extraction, companyId, callId,
                 apiLog, runs, harness, pull, peer, repair>>

\* UPDATE raw_meetings SET processed_at = now; next record or the summary
MarkProcessed ==
  /\ pc = "mark_processed"
  /\ db' = SetProcessedAt(db, unprocessed[i].id, now)
  /\ i' = i + 1
  /\ pc' = IF i + 1 > Len(unprocessed) THEN "done" ELSE "classify"
  /\ classification' = "null"
  /\ extraction' = NoExtraction
  /\ companyId' = NoId
  /\ callId' = NoId
  /\ UNCHANGED <<now, unprocessed, stats, caught, apiLog, runs, faults, harness, pull, peer, repair>>

\* a fatal error outside the per-record guards, or the process being killed:
\* main's catch exits with status 1
Crash ==
  /\ pc \in Running
  /\ faults < MaxFaults
  /\ faults' = faults + 1
  /\ pc' = "crashed"
  /\ UNCHANGED <<db, now, locals, runs, harness, pull, peer, repair>>

Next ==
  \/ StartRun
  \/ Classify
  \/ WriteClassification
  \/ Extract
  \/ StoreCompany
  \/ StoreCall
  \/ StoreLinks
  \/ MarkProcessed
  \/ Crash

Spec == Init /\ [][Next]_vars

\* ------------------------------------------------------------------------
\* Ingestion (pull-fireflies.ts): fetch, filter by participants, upsert
\* ------------------------------------------------------------------------

\* ingestion runs in one behaviour
MaxPulls == 2

\* transcripts one ingestion run fetches
MaxFetched == 2

\* what Fireflies holds: transcript 1 in two versions (it was edited between
\* two pulls), transcript 2 with and without its outside participant, and
\* one transcript for each way of failing the filters or the reads
FirefliesTranscripts ==
  { Transcript(1, 1), Transcript(1, 2), Transcript(2, 3), Transcript(2, 7),
    Transcript(3, 4), Transcript(4, 5), Transcript(5, 6) }

\* EXCLUDED_EMAILS, from the environment
EXCLUDED_EMAILS == {ExternalAddr("n")}

\* getEmails(transcript): the same reads as the classifier's getAllEmails
getEmails(transcript) == getAllEmails(transcript)

hasSherlock(emails) == \E e \in emails : EndsWithSherlock(e)

\* mutant: any address counts as an outside participant
hasExternalLoose(emails) == emails # {}

\* mutant: the test for an outside participant always passes
hasExternalAlways(emails) == emails = emails

hasExternal(emails) ==
  \E e \in emails : ~EndsWithSherlock(e) /\ e \notin EXCLUDED_EMAILS

hasExcludedOnly(emails) ==
  LET nonSherlock == {e \in emails : ~EndsWithSherlock(e)}
  IN nonSherlock # {} /\ \A e \in nonSherlock : e \in EXCLUDED_EMAILS

\* the filter loop of main from transcript k on: the transcripts that pass,
\* and the counters
RECURSIVE FilterTranscripts(_, _, _, _)
FilterTranscripts(all, k, kept, counts) ==
  IF k > Len(all) THEN [filtered |-> kept, stats |-> counts]
  ELSE LET emails == getEmails(MeetingCatalogue[all[k].blob])
       IN IF ~hasSherlock(emails)
            THEN FilterTranscripts(all, k + 1, kept,
                                   [counts EXCEPT !.noSherlock = @ + 1])
          ELSE IF ~hasExternal(emails)
            THEN FilterTranscripts(all, k + 1, kept,
                                   [counts EXCEPT !.noExternal = @ + 1])
          ELSE IF hasExcludedOnly(emails)
            THEN FilterTranscripts(all, k + 1, kept,
                                   [counts EXCEPT !.excludedOnly = @ + 1])
          ELSE FilterTranscripts(all, k + 1, Append(kept, all[k]),
                                 [counts EXCEPT !.passed = @ + 1])

\* mutant: on conflict the whole row is replaced by a freshly ingested one
UpsertRawMeetingReplace(d, t, fail) ==
  LET existing == SelectFirst(d.raw_meetings, "firefliesId", t.id)
  IN IF fail THEN LoopThrew(d)
     ELSE IF existing = NoId
       THEN LoopDone([d EXCEPT !.raw_meetings = Append(@, NewRawMeeting(t))])
     ELSE LoopDone([d EXCEPT !.raw_meetings[existing] = NewRawMeeting(t)])

\* mutant: a plain insert into a table without the unique constraint
InsertRawMeeting(d, t, fail) ==
  IF fail THEN LoopThrew(d)
  ELSE LoopDone([d EXCEPT !.raw_meetings = Append(@, NewRawMeeting(t))])

\* db.insert(rawMeetings).values(...).onConflictDoUpdate({ target:
\* firefliesId, set: { title, date, duration, rawJson } })
UpsertRawMeeting(d, t, fail) ==
  LET existing == SelectFirst(d.raw_meetings, "firefliesId", t.id)
      v == RawMeetingValues(t)
  IN IF fail THEN LoopThrew(d)
     ELSE IF existing = NoId
       THEN LoopDone([d EXCEPT !.raw_meetings = Append(@, NewRawMeeting(t))])
     ELSE LoopDone([d EXCEPT !.raw_meetings[existing] =
                      [@ EXCEPT !.title = v.title, !.date = v.date,
                                !.duration = v.duration, !.rawJson = v.rawJson]])

\* what the batches of one run add up to: any transcripts, an identifier
\* possibly more than once (skip-based paging over a growing list)
FetchedLists ==
  UNION { [1..n -> FirefliesTranscripts] : n \in 0..MaxFetched }

\* main up to the store loop: fetch the batches, filter.  A rejected fetch
\* or a throw of getEmails is fatal: main().catch exits with status 1.
PullFetch ==
  /\ pull.pc \in {"idle", "done", "crashed"}
  /\ pull.runs < MaxPulls
  /\ \/ pull' = [NoPull EXCEPT !.pc = "crashed", !.runs = pull.runs + 1]
     \/ \E all \in FetchedLists :
          IF \E k \in 1..Len(all) : EmailsMalformed(MeetingCatalogue[all[k].blob])
            THEN pull' = [NoPull EXCEPT !.pc = "crashed", !.runs = pull.runs + 1]
            ELSE LET f == FilterTranscripts(all, 1, <<>>,
                                            [NoPull.stats EXCEPT !.total = Len(all)])
                 IN pull' = [ pc |-> IF f.filtered = <<>> THEN "summary" ELSE "store",
                              runs |-> pull.runs + 1,
                              filtered |-> f.filtered, k |-> 1, stats |-> f.stats,
                              inserted |-> 0, skipped |-> 0 ]
  /\ UNCHANGED <<db, now, pc, locals, runs, faults, harness, peer, repair>>

\* one round of the store loop: the upsert inside its try/catch
PullStore ==
  /\ pull.pc = "store"
  /\ \E fail \in BOOLEAN :
       /\ InjectFault(fail)
       /\ LET r == UpsertRawMeeting(db, pull.filtered[pull.k], fail)
          IN /\ db' = r.db
             /\ pull' = [pull EXCEPT
                  !.inserted = IF r.threw THEN @ ELSE @ + 1,
                  !.skipped = IF r.threw THEN @ + 1 ELSE @,
                  !.k = @ + 1,
                  !.pc = IF pull.k + 1 > Len(pull.filtered) THEN "summary" ELSE "store"]
  /\ UNCHANGED <<now, pc, locals, runs, harness, peer, repair>>

\* the storage results are printed and the process exits
PullExit ==
  /\ pull.pc = "summary"
  /\ pull' = [NoPull EXCEPT !.pc = "done", !.runs = pull.runs]
  /\ UNCHANGED <<db, now, pc, locals, runs, faults, harness, peer, repair>>

\* the store before the first ingestion: seeded, no meeting
PullInit ==
  /\ db = [SeededDb(BlobsFrom(1)) EXCEPT !.raw_meetings = <<>>]
  /\ now = 0
  /\ pc = "idle"
  /\ InitLocals
  /\ runs = 0
  /\ faults = 0
  /\ InitHarness
  /\ pull = NoPull
  /\ peer = NoPeer
  /\ repair = NoRepair

PullNext == PullFetch \/ PullStore \/ PullExit

PullSpec == PullInit /\ [][PullNext]_vars

\* ------------------------------------------------------------------------
\* Harness for normalizeResult: any parsed model output, normalised and
\* then written as a Call row
\* ------------------------------------------------------------------------

\* values the model may put in call_quality_score
RawScores ==
  {Num(n) : n \in (1 - ScoreSpread)..(10 + ScoreSpread)}
    \cup {Undef, Null, Tok("8"), Bool(TRUE), Arr(<<Num(7)>>)}

\* values the model may put in company_name
RawCompanyNames == {Undef, Null, Str(<<>>), Str(Acme), Num(3)}

\* values the model may put in objections
RawArrays == {Undef, Null, Tok("none"), Arr(<<>>), Arr(<<Obj([type_key |-> Tok("other")])>>)}

\* an object without the string fields, its array fields of every JSON type
MixedOutput ==
  Obj([ prospect_names |-> Null, team_members |-> Tok("none"),
        tech_stack |-> Arr(<<Tok("Solidity"), Tok("Solidity")>>),
        objections |-> Obj([type_key |-> Tok("other")]),
        prospect_questions |-> Num(3), key_quotes |-> Bool(TRUE),
        follow_up_actions |-> Arr(<<>>) ])

\* an object with every field the prompt asks for
FullOutput ==
  Obj([ call_type |-> Tok("pitch"), offering_pitched |-> Tok("audit"),
        company_name |-> Str(Acme), call_outcome |-> Tok("positive"),
        deal_size |-> Tok("50k"), call_quality_score |-> Num(8),
        quality_rationale |-> Tok("clear next steps"),
        prospect_names |-> Arr(<<Obj([name |-> Str(<<"P">>)])>>),
        team_members |-> Arr(<<Obj([name |-> Str(AlB)])>>),
        tech_stack |-> Arr(<<Tok("Rust")>>),
        objections |-> Arr(<<Obj([type_key |-> Tok("other")])>>),
        prospect_questions |-> Arr(<<Tok("how long")>>),
        key_quotes |-> Arr(<<Obj([quote |-> Tok("q")])>>),
        follow_up_actions |-> Arr(<<Obj([action_text |-> Tok("send sow")])>>),
        counter_responses |-> Arr(<<>>) ])

\* parsed model outputs: objects with or without each field, and JSON values
\* that are no objects
ParsedOutputs ==
  { Obj([call_quality_score |-> s, company_name |-> c, objections |-> a]) :
      s \in RawScores, c \in RawCompanyNames, a \in RawArrays }
    \cup { Obj([company_name |-> c]) : c \in RawCompanyNames }
    \cup { MixedOutput, FullOutput }
    \cup { Num(5), Bool(FALSE), Arr(<<>>), Tok("text") }

NormInit ==
  /\ db = SeededDb(BlobsFrom(1))
  /\ now = 0
  /\ pc = "parsed"
  /\ InitLocals
  /\ runs = 0
  /\ faults = 0
  /\ resolved = <<>>
  /\ raw \in ParsedOutputs
  /\ normalized = NoExtraction
  /\ sample = MeetingCatalogue[6]
  /\ verdict = NoVerdict
  /\ pull = NoPull
  /\ peer = NoPeer
  /\ repair = NoRepair

\* return normalizeResult(parsed)
Normalize ==
  /\ pc = "parsed"
  /\ normalized' = normalizeResult(raw)
  /\ pc' = "normalized"
  /\ UNCHANGED <<db, now, locals, runs, faults, resolved, raw, sample, verdict, pull, peer, repair>>

\* the Call insert of storeExtraction on the normalised result
StoreNormalized ==
  /\ pc = "normalized"
  /\ db' = InsertCall(db, 1, NoId, normalized, FALSE).db
  /\ pc' = "stored"
  /\ UNCHANGED <<now, locals, runs, faults, harness, pull, peer, repair>>

NormNext == Normalize \/ StoreNormalized

NormSpec == NormInit /\ [][NormNext]_vars

\* ------------------------------------------------------------------------
\* Harness for the team-member resolver: resolutions in any order against
\* one store, as the sequential runs of the driver issue them
\* ------------------------------------------------------------------------

\* number of resolutions in one behaviour
MaxResolves == 3

TeamNames ==
  { Str(AlB), Str(<<"a","l"," "," ","b"," ">>), Str(<<"4","2">>) }

TeamEmails ==
  { Undef, Str(<<"n","o","p","e">>), Str(<<" ">>),
    Str(<<" ","A","l",".","B","@">> \o SHERLOCK_DOMAIN),
    Str(<<"a","l",".","b","@">> \o SHERLOCK_DOMAIN) }

ResolveInit ==
  /\ db = SeededDb(BlobsFrom(1))
  /\ now = 0
  /\ pc = "resolver"
  /\ InitLocals
  /\ runs = 0
  /\ faults = 0
  /\ InitHarness
  /\ pull = NoPull
  /\ peer = NoPeer
  /\ repair = NoRepair

ResolveTeamMember ==
  /\ pc = "resolver"
  /\ Len(resolved) < MaxResolves
  /\ \E name \in TeamNames, email \in TeamEmails, fail \in BOOLEAN :
       /\ InjectFault(fail)
       \* a failure is injected into an insert only
       /\ fail => getOrCreateTeamMember(db, name, email, FALSE).db # db
       /\ LET r == getOrCreateTeamMember(db, name, email, fail)
          IN /\ db' = r.db
             /\ resolved' = Append(resolved,
                               [ name |-> name, email |-> email, fail |-> fail,
                                 id |-> r.id, threw |-> r.threw ])
  /\ UNCHANGED <<now, pc, locals, runs, raw, normalized, sample, verdict, pull, peer, repair>>

ResolveNext == ResolveTeamMember

ResolveSpec == ResolveInit /\ [][ResolveNext]_vars

\* ------------------------------------------------------------------------
\* Harness for the company and prospect-contact resolvers: the resolutions
\* storeExtraction issues, record after record and run after run
\* ------------------------------------------------------------------------

\* number of resolutions in one behaviour
MaxEntityResolves == 3

\* company_name after normalizeResult: always a string
CompanyNames ==
  { Str(<<>>), Str(<<" ">> \o UnknownName), Str(Acme),
    Str(<<" ">> \o Acme \o <<" ">>), Str(<<"a","c","m","e">>) }

ProspectNames == { Str(<<"P">>), Str(<<" ","P"," ">>), Str(<<"Q">>) }

\* a company an earlier run stored
Globex == <<"G","l","o","b","e","x">>

EntityInit ==
  /\ db = [SeededDb(BlobsFrom(1)) EXCEPT
             !.companies = <<[name |-> Globex, firstSeenDate |-> 0]>>]
  /\ now = 0
  /\ pc = "entities"
  /\ InitLocals
  /\ runs = 0
  /\ faults = 0
  /\ InitHarness
  /\ pull = NoPull
  /\ peer = NoPeer
  /\ repair = NoRepair

\* storeExtraction step 1 for the next record: main has slept API_DELAY and
\* called the extraction model since the resolution before
ResolveCompany ==
  /\ pc = "entities"
  /\ Len(resolved) < MaxEntityResolves
  /\ now' = now + API_DELAY
  /\ \E name \in CompanyNames, fail \in BOOLEAN :
       /\ InjectFault(fail)
       /\ LET r == getOrCreateCompany(db, name, NoTime, now', fail)
          IN /\ db' = r.db
             /\ resolved' = Append(resolved,
                               [ kind |-> "company", name |-> name,
                                 companyId |-> NoId, fail |-> fail,
                                 id |-> r.id, threw |-> r.threw,
                                 created |-> Len(r.db.companies) > Len(db.companies) ])
  /\ UNCHANGED <<pc, locals, runs, raw, normalized, sample, verdict, pull, peer, repair>>

\* storeExtraction step 4, one prospect of a call whose company is companyId
ResolveProspectContact ==
  /\ pc = "entities"
  /\ Len(resolved) < MaxEntityResolves
  /\ \E name \in ProspectNames, company \in RowIds(db.companies), fail \in BOOLEAN :
       /\ InjectFault(fail)
       /\ LET r == getOrCreateProspectContact(db, name, Null, company, fail)
          IN /\ db' = r.db
             /\ resolved' = Append(resolved,
                               [ kind |-> "prospect", name |-> name,
                                 companyId |-> company, fail |-> fail,
                                 id |-> r.id, threw |-> r.threw,
                                 created |-> Len(r.db.prospect_contacts)
                                               > Len(db.prospect_contacts) ])
  /\ UNCHANGED <<now, pc, locals, runs, raw, normalized, sample, verdict, pull, peer, repair>>

EntityNext == ResolveCompany \/ ResolveProspectContact

EntitySpec == EntityInit /\ [][EntityNext]_vars

\* ------------------------------------------------------------------------
\* Harness for the classifier: classifyMeeting on one blob, the rules first
\* and the model only when they are inconclusive
\* ------------------------------------------------------------------------

\* host and participants: nobody, internal only, mixed, external only
SampleParticipants ==
  { [host |-> Undef, participants |-> <<>>],
    [host |-> Str(InternalAddr("a")), participants |-> <<>>],
    [host |-> Str(InternalAddr("a")), participants |-> <<ExternalAddr("b")>>],
    [host |-> Undef, participants |-> <<ExternalAddr("b")>>] }

SampleTitles ==
  { <<>>, <<"intro">>, <<"audit", "audit", "audit">>,
    <<"security", "audit", "pricing">>, <<"vendor", "conference">>,
    <<"sprint", "retro">>, <<"weekly">> }

SampleMeetingTypes ==
  { <<>>, <<"sales", "team">>, <<"sync", "team">>, <<"discovery">>, <<"standup">> }

SampleOverviews ==
  { <<>>, <<"scope">>, <<"vendor", "event", "sponsor">>,
    <<"sprint", "retro", "1:1", "standup">> }

ClassifierSamples ==
  { [ host_email |-> who.host, organizer_email |-> Undef,
      participants |-> who.participants, meeting_attendees |-> <<>>,
      title |-> title,
      summary |-> [EmptySummary EXCEPT !.meeting_type = type, !.overview = overview],
      transcript_len |-> 400, date |-> NoTime, duration |-> 0 ] :
      who \in SampleParticipants, title \in SampleTitles,
      type \in SampleMeetingTypes, overview \in SampleOverviews }

\* texts the classification model may answer with
ModelAnswers ==
  (ClassifierResponses \ {ApiError})
    \cup { <<>>, <<"o","t","h","e","r">>, <<"1","."," ","O","T","H","E","R">>,
           <<"i","n","t","e","r","n","a","l"," ","o","r"," ","o","t","h","e","r">> }

ClassInit ==
  /\ db = SeededDb(BlobsFrom(1))
  /\ now = 0
  /\ pc = "classifier"
  /\ InitLocals
  /\ runs = 0
  /\ faults = 0
  /\ resolved = <<>>
  /\ raw = Undef
  /\ normalized = NoExtraction
  /\ sample \in ClassifierSamples
  /\ verdict = NoVerdict
  /\ pull = NoPull
  /\ peer = NoPeer
  /\ repair = NoRepair

\* classifyMeeting: const ruleResult = classifyByRules(data)
ClassifyByRules ==
  /\ pc = "classifier"
  /\ verdict' = [verdict EXCEPT !.rules = classifyByRules(sample)]
  /\ pc' = "ruled"
  /\ UNCHANGED <<db, now, locals, runs, faults, resolved, raw, normalized, sample, pull, peer, repair>>

\* classifyMeeting: return classifyByLLM(anthropicClient, data), reached
\* when ruleResult is null
ClassifyByLLM ==
  /\ pc = "ruled"
  /\ verdict.rules = Inconclusive
  /\ \E response \in ModelAnswers :
       verdict' = [verdict EXCEPT !.response = response,
                                  !.llm = classifyByLLM(response)]
  /\ pc' = "answered"
  /\ UNCHANGED <<db, now, locals, runs, faults, resolved, raw, normalized, sample, pull, peer, repair>>

ClassNext == ClassifyByRules \/ ClassifyByLLM

ClassifierSpec == ClassInit /\ [][ClassNext]_vars

\* ------------------------------------------------------------------------
\* Two driver processes at once: main as above, and a peer running the same
\* main whose steps interleave with it at the store's statements
\* ------------------------------------------------------------------------

\* the classification an earlier run stored for a meeting the model, when
\* asked, called "other"
SettledClassification(data) ==
  IF EmailsMalformed(data) \/ NeedsLLM(classifyByRules(data))
    THEN "other"
    ELSE classifyByRules(data)

\* the store after an earlier run processed the meetings before m
RECURSIVE ProcessedBefore(_, _)
ProcessedBefore(d, m) ==
  IF m <= 1 THEN d
  ELSE LET e == ProcessedBefore(d, m - 1)
       IN SetProcessedAt(
            SetClassification(e, m - 1,
                              SettledClassification(Blob(e.raw_meetings[m - 1]))),
            m - 1, 0)

\* the last meeting ingested is the sales call of the catalogue; the
\* meetings before it are processed; no write fails
OverlapInit ==
  /\ db = ProcessedBefore(
            SeededDb([m \in Meetings |->
                        ((m - NumMeetings) % Len(MeetingCatalogue)) + 1]),
            NumMeetings)
  /\ now = 1
  /\ pc = "idle"
  /\ InitLocals
  /\ runs = 0
  /\ faults = MaxFaults
  /\ InitHarness
  /\ pull = NoPull
  /\ peer = NoPeer
  /\ repair = NoRepair

\* the record the peer is at
PeerCurrent == peer.unprocessed[peer.i]

\* the peer's catch block of step 2
PeerCaught(step) ==
  peer.caught \cup {[id |-> PeerCurrent.id, step |-> step]}

\* the peer starts and queries the backlog
PeerStart ==
  /\ peer.pc = "idle"
  /\ now' = now + 1
  /\ peer' = [NoPeer EXCEPT
                !.pc = IF Backlog(db) = <<>> THEN "done" ELSE "classify",
                !.unprocessed = Backlog(db), !.i = 1]
  /\ UNCHANGED <<db, pc, locals, runs, faults, harness, pull, repair>>

\* the peer's step 1: classifyMeeting in its try/catch, then the write-back
PeerClassify ==
  /\ peer.pc = "classify"
  /\ LET data == Blob(PeerCurrent)
         answers ==
           IF EmailsMalformed(data) THEN {"other"}
           ELSE IF ~NeedsLLM(classifyByRules(data)) THEN {classifyByRules(data)}
           ELSE { IF response = ApiError THEN "other" ELSE classifyByLLM(response) :
                    response \in ClassifierResponses }
     IN \E c \in answers :
          /\ db' = SetClassification(db, PeerCurrent.id, c)
          /\ peer' = [peer EXCEPT !.classification = c,
                                  !.pc = NextAfterClassification(c)]
  /\ UNCHANGED <<now, pc, locals, runs, faults, harness, pull, repair>>

\* the peer's step 2 up to the select of getOrCreateCompany
PeerExtract ==
  /\ peer.pc = "extract"
  /\ IF TooShort(Blob(PeerCurrent).transcript_len)
       THEN /\ peer' = [peer EXCEPT !.pc = "mark_processed"]
            /\ UNCHANGED now
       ELSE /\ now' = now + API_DELAY
            /\ \E k \in 1..Len(ExtractionResponses) :
                 LET r == extractSalesCall(ExtractionResponses[k])
                 IN IF ~r.ok
                      THEN peer' = [peer EXCEPT !.pc = AfterExtractionCatch,
                                                !.caught = PeerCaught("extraction")]
                      ELSE peer' = [peer EXCEPT
                                      !.pc = "insert_company",
                                      !.extraction = r.result,
                                      !.existing =
                                        SelectCompany(db, r.result.company_name)]
  /\ UNCHANGED <<db, pc, locals, runs, faults, harness, pull, repair>>

\* the rest of the peer's getOrCreateCompany: the insert, unless the select
\* had found a row
PeerInsertCompany ==
  /\ peer.pc = "insert_company"
  /\ LET r == CreateCompanyAfterSelect(db, peer.extraction.company_name,
                                       Blob(PeerCurrent).date, now, peer.existing)
     IN /\ db' = r.db
        /\ peer' = IF r.threw
                     THEN [peer EXCEPT !.pc = AfterExtractionCatch,
                                       !.caught = PeerCaught("extraction")]
                     ELSE [peer EXCEPT !.pc = "store_call", !.companyId = r.id]
  /\ UNCHANGED <<now, pc, locals, runs, faults, harness, pull, repair>>

\* the peer's storeExtraction from the Call insert to its end
PeerStoreCall ==
  /\ peer.pc = "store_call"
  /\ LET c == InsertCall(db, PeerCurrent.id, peer.companyId, peer.extraction, FALSE)
         r == StoreChildren(c.db, c.id, peer.companyId, peer.extraction, NoFault)
     IN /\ db' = r.db
        /\ peer' = [peer EXCEPT
                      !.callId = c.id,
                      !.pc = IF r.threw THEN AfterExtractionCatch ELSE "mark_processed",
                      !.caught = IF r.threw THEN PeerCaught("extraction") ELSE @]
  /\ UNCHANGED <<now, pc, locals, runs, faults, harness, pull, repair>>

\* the peer marks its record processed and moves on
PeerMarkProcessed ==
  /\ peer.pc = "mark_processed"
  /\ db' = SetProcessedAt(db, PeerCurrent.id, now)
  /\ peer' = [peer EXCEPT
                !.i = @ + 1,
                !.pc = IF peer.i + 1 > Len(peer.unprocessed) THEN "done" ELSE "classify",
                !.classification = "null", !.extraction = NoExtraction,
                !.existing = NoId, !.companyId = NoId, !.callId = NoId]
  /\ UNCHANGED <<now, pc, locals, runs, faults, harness, pull, repair>>

OverlapNext ==
  \/ StartRun
  \/ Classify
  \/ WriteClassification
  \/ Extract
  \/ StoreCompany
  \/ StoreCall
  \/ StoreLinks
  \/ MarkProcessed
  \/ PeerStart
  \/ PeerClassify
  \/ PeerExtract
  \/ PeerInsertCompany
  \/ PeerStoreCall
  \/ PeerMarkProcessed

OverlapSpec == OverlapInit /\ [][OverlapNext]_vars

\* ------------------------------------------------------------------------
\* The pipeline: ingestion and the driver, run one after the other by the
\* operator, any number of times in any order, with no failing write
\* ------------------------------------------------------------------------

\* the store holds the meetings an earlier ingestion kept (transcript 1 in
\* its first version); the fault budget is spent
PipelineInit ==
  /\ db = SeededDb(BlobsFrom(1))
  /\ now = 0
  /\ pc = "idle"
  /\ InitLocals
  /\ runs = 0
  /\ faults = MaxFaults
  /\ InitHarness
  /\ pull = NoPull
  /\ peer = NoPeer
  /\ repair = NoRepair

\* the first driver run has ended and the next has not started
DriverAtRest == pc = "done" /\ runs = 1

\* ingestion is not running
PullAtRest == pull.pc \in {"idle", "done", "crashed"}

PipelineNext ==
  \/ DriverAtRest /\ PullFetch
  \/ DriverAtRest /\ PullStore
  \/ DriverAtRest /\ PullExit
  \/ PullAtRest /\ StartRun
  \/ PullAtRest /\ Classify
  \/ PullAtRest /\ WriteClassification
  \/ PullAtRest /\ Extract
  \/ PullAtRest /\ StoreCompany
  \/ PullAtRest /\ StoreCall
  \/ PullAtRest /\ StoreLinks
  \/ PullAtRest /\ MarkProcessed

PipelineSpec == PipelineInit /\ [][PipelineNext]_vars

\* ------------------------------------------------------------------------
\* The repair script: re-link team members from the stored meeting blobs
\* ------------------------------------------------------------------------

\* number of runs of the repair script in one behaviour
MaxRepairs == 2

\* email.split("@")[0]
RECURSIVE LocalPart(_)
LocalPart(e) ==
  IF e = <<>> \/ Head(e) = "@" THEN <<>> ELSE <<Head(e)>> \o LocalPart(Tail(e))

\* sherlockMembers.find(m => m.email.toLowerCase() === e.toLowerCase())
FindMember(members, e) ==
  \E k \in 1..Len(members) : toLowerCase(members[k].email) = toLowerCase(e)

\* the attendees loop: every internal attendee is pushed, repeated or not
RECURSIVE MembersFromAttendees(_, _)
MembersFromAttendees(attendees, k) ==
  IF k > Len(attendees) THEN <<>>
  ELSE LET e == attendees[k]
       IN (IF e # <<>> /\ EndsWithSherlock(toLowerCase(e))
             THEN <<[name |-> LocalPart(e), email |-> e]>> ELSE <<>>)
            \o MembersFromAttendees(attendees, k + 1)

\* the participants loop: an internal address is pushed unless present
RECURSIVE MembersFromParticipants(_, _, _)
MembersFromParticipants(members, participants, k) ==
  IF k > Len(participants) THEN members
  ELSE LET p == participants[k]
           pushed ==
             IF p # <<>> /\ includes(p, "@") /\ EndsWithSherlock(toLowerCase(p))
                  /\ ~FindMember(members, p)
               THEN Append(members, [name |-> LocalPart(p), email |-> p])
               ELSE members
       IN MembersFromParticipants(pushed, participants, k + 1)

\* rawData.host_email.toLowerCase() on a truthy host that is no string
HostMalformed(data) ==
  Truthy(data.host_email) /\ data.host_email.t # "str"

\* sherlockMembers of one call, for a blob whose host is well-formed
SherlockMembers(data) ==
  LET members == MembersFromParticipants(
                   MembersFromAttendees(data.meeting_attendees, 1),
                   data.participants, 1)
      host == data.host_email
  IN IF Truthy(host) /\ EndsWithSherlock(toLowerCase(host.v))
          /\ ~FindMember(members, host.v)
       THEN Append(members, [name |-> LocalPart(host.v), email |-> host.v])
       ELSE members

\* mutant: the lookup of an existing link finds nothing
FindLinkNever(d, cid, tmId) == NoId

\* select id from call_team_members where call_id = .. and team_member_id = ..
FindLink(d, cid, tmId) ==
  IF \E k \in RowIds(d.call_team_members) :
       /\ d.call_team_members[k].callId = cid
       /\ d.call_team_members[k].teamMemberId = tmId
    THEN CHOOSE k \in RowIds(d.call_team_members) :
           /\ d.call_team_members[k].callId = cid
           /\ d.call_team_members[k].teamMemberId = tmId
    ELSE NoId

\* the loop over sherlockMembers: resolve, look the link up, insert it when
\* it is missing; the first write of iteration failAt fails and is caught
RECURSIVE RelinkMembers(_, _, _, _, _, _)
RelinkMembers(d, cid, members, k, failAt, counts) ==
  IF k > Len(members) THEN [db |-> d, counts |-> counts]
  ELSE LET tm == members[k]
           r == getOrCreateTeamMember(d, Str(tm.name), Str(tm.email),
                                      k = failAt)
           existingLink == IF r.threw THEN NoId ELSE FindLink(r.db, cid, r.id)
           failsLink == k = failAt /\ r.db = d
       IN IF r.threw
            THEN RelinkMembers(r.db, cid, members, k + 1, failAt, counts)
          ELSE IF existingLink # NoId
            THEN RelinkMembers(r.db, cid, members, k + 1, failAt,
                               [counts EXCEPT !.skipped = @ + 1])
          ELSE IF failsLink
            THEN RelinkMembers(r.db, cid, members, k + 1, failAt, counts)
          ELSE RelinkMembers(
                 [r.db EXCEPT !.call_team_members =
                    Append(@, [callId |-> cid, teamMemberId |-> r.id])],
                 cid, members, k + 1, failAt,
                 [counts EXCEPT !.linked = @ + 1])

\* the team members an earlier extraction may have linked to a call
PriorTeamMembers ==
  { <<>>,
    <<Obj([name |-> Str(<<"a">>), email |-> Str(InternalAddr("a"))])>>,
    <<Obj([name |-> Str(AlB), email |-> Undef]),
      Obj([name |-> Str(AlB), email |-> Undef])>> }

\* a store the driver left: one call per meeting, with its team-member links
RECURSIVE WithCalls(_, _, _)
WithCalls(d, m, prior) ==
  IF m > NumMeetings THEN d
  ELSE LET c == InsertCall(d, m, NoId, NoExtraction, FALSE)
       IN WithCalls(LinkTeamMembers(c.db, c.id, prior, 1, NoFault).db,
                    m + 1, prior)

RepairInit ==
  /\ \E first \in 1..Len(MeetingCatalogue), prior \in PriorTeamMembers :
       db = WithCalls(SeededDb(BlobsFrom(first)), 1, prior)
  /\ now = 0
  /\ pc = "repair"
  /\ InitLocals
  /\ runs = 0
  /\ faults = 0
  /\ InitHarness
  /\ pull = NoPull
  /\ peer = NoPeer
  /\ repair = NoRepair

\* main of the repair script up to the loop: select all calls
RepairStart ==
  /\ pc = "repair"
  /\ repair.pc \in {"idle", "done", "failed"}
  /\ repair.runs < MaxRepairs
  /\ repair' = [repair EXCEPT
                  !.pc = "calls", !.runs = @ + 1,
                  !.allCalls = [k \in RowIds(db.calls) |->
                                  [callId |-> k,
                                   rawMeetingId |-> db.calls[k].rawMeetingId]],
                  !.k = 1, !.linked = 0, !.skipped = 0]
  /\ UNCHANGED <<db, now, pc, locals, runs, faults, harness, pull, peer>>

\* one iteration of the loop over allCalls
RepairCall ==
  /\ pc = "repair"
  /\ repair.pc = "calls"
  /\ repair.k <= Len(repair.allCalls)
  /\ LET call == repair.allCalls[repair.k]
         found == call.rawMeetingId \in RowIds(db.raw_meetings)
     IN IF call.rawMeetingId = NoId \/ ~found
          THEN /\ repair' = [repair EXCEPT !.k = @ + 1]
               /\ UNCHANGED <<db, faults>>
        ELSE IF HostMalformed(Blob(db.raw_meetings[call.rawMeetingId]))
          THEN /\ repair' = [repair EXCEPT !.pc = "failed",
                               !.history = Append(@, repair.linked)]
               /\ UNCHANGED <<db, faults>>
        ELSE LET members ==
                   SherlockMembers(Blob(db.raw_meetings[call.rawMeetingId]))
             IN \E failAt \in 0..Len(members) :
                  LET clean == RelinkMembers(db, call.callId, members, 1, 0,
                                             [linked |-> 0, skipped |-> 0])
                      r == RelinkMembers(db, call.callId, members, 1, failAt,
                                         [linked |-> 0, skipped |-> 0])
                  IN /\ InjectFault(failAt # 0)
                     \* a failure is injected into a write only
                     /\ failAt # 0 => r.db # clean.db
                     /\ db' = r.db
                     /\ repair' = [repair EXCEPT
                                     !.k = @ + 1,
                                     !.linked = @ + r.counts.linked,
                                     !.skipped = @ + r.counts.skipped]
  /\ UNCHANGED <<now, pc, locals, runs, harness, pull, peer>>

\* the loop is over: the summary is printed
RepairExit ==
  /\ pc = "repair"
  /\ repair.pc = "calls"
  /\ repair.k > Len(repair.allCalls)
  /\ repair' = [repair EXCEPT !.pc = "done",
                  !.history = Append(@, repair.linked)]
  /\ UNCHANGED <<db, now, pc, locals, runs, faults, harness, pull, peer>>

RepairNext == RepairStart \/ RepairCall \/ RepairExit

RepairSpec == RepairInit /\ [][RepairNext]_vars

\* ------------------------------------------------------------------------
\* Properties of the driver
\* ------------------------------------------------------------------------

ProcessedAt(m) == db.raw_meetings[m].processedAt

CallsOf(d, m) == {k \in RowIds(d.calls) : d.calls[k].rawMeetingId = m}

\* ids of the records of this run's backlog
BacklogIds == {unprocessed[k].id : k \in 1..Len(unprocessed)}

\* the driver has left the loop body of record m in this run
Finished(m) ==
  \/ pc = "done" /\ m \in BacklogIds
  \/ pc \in Running \cup {"crashed"} /\ \E k \in 1..(i - 1) : unprocessed[k].id = m

\* C1: a record whose classification or extraction raised in this run has its
\* processed timestamp set once the driver is through with it: the catch
\* blocks lead to the mark-processed step, never past it or out of the loop.
C1_FailedRecordMarked ==
  \A e \in caught : Finished(e.id) => ProcessedAt(e.id) # NoTime

C1_Witness ==
  /\ [id |-> 1, step |-> "extraction"] \in caught
  /\ [id |-> 2, step |-> "classification"] \in caught
  /\ pc = "done"
  /\ ProcessedAt(1) # NoTime
  /\ ProcessedAt(2) # NoTime

\* C2: a run that completes leaves every record of its backlog with a
\* processed timestamp, so that the backlog query returns nothing afterwards;
\* and a run started after a completed one finds an empty backlog, exits at
\* once, and classifies, extracts and writes nothing.
RunCompletes ==
  (pc # "done" /\ pc' = "done") =>
    /\ \A m \in BacklogIds' : db'.raw_meetings[m].processedAt # NoTime
    /\ Backlog(db') = <<>>

RunAfterCompletedRun ==
  (pc = "done" /\ runs' = runs + 1) =>
    /\ unprocessed' = <<>>
    /\ pc' = "done"
    /\ db' = db
    /\ stats' = ZeroStats
    /\ caught' = {}

C2_CompletedRunEmptiesBacklog == [][RunCompletes /\ RunAfterCompletedRun]_vars

C2_Witness ==
  /\ runs = 2
  /\ pc = "done"
  /\ unprocessed = <<>>
  /\ faults = 0
  /\ \A m \in Meetings : ProcessedAt(m) # NoTime
  /\ db.calls # <<>>

\* C3: while a run is in progress, a record that already had its processed
\* timestamp when the run queried the backlog keeps its classification and
\* timestamp, and no Call row is inserted for it.
ProcessedRecordsKept ==
  pc \in Running =>
    \A m \in Meetings \ BacklogIds :
      /\ db'.raw_meetings[m] = db.raw_meetings[m]
      /\ CallsOf(db', m) = CallsOf(db, m)

C3_ProcessedRecordsUntouched == [][ProcessedRecordsKept]_vars

C3_Witness ==
  /\ runs = 2
  /\ pc = "done"
  /\ BacklogIds = {2}
  /\ ProcessedAt(1) # NoTime
  /\ ProcessedAt(1) < ProcessedAt(2)
  /\ CallsOf(db, 2) # {}

\* C4: at most one Call row references any raw meeting, also after runs that
\* ended in a fatal error and were rerun.
C4_OneCallPerMeeting ==
  \A m \in Meetings : Cardinality(CallsOf(db, m)) <= 1

\* C5: every Call row references a raw meeting whose stored classification
\* is sales_call.
C5_CallsOnlyForSalesMeetings ==
  \A k \in RowIds(db.calls) :
    db.raw_meetings[db.calls[k].rawMeetingId].classification = "sales_call"

\* C6: a record for which the driver counted an extraction error has no Call
\* row when its processing ends, and it is marked processed.
C6_ExtractionErrorLeavesNoCall ==
  \A e \in caught :
    (e.step = "extraction" /\ Finished(e.id)) =>
      /\ CallsOf(db, e.id) = {}
      /\ ProcessedAt(e.id) # NoTime

\* ------------------------------------------------------------------------
\* Properties of the store writer
\* ------------------------------------------------------------------------

IsSeeded(seeds, x) == x.t = "tok" /\ \E k \in 1..Len(seeds) : seeds[k] = x.v

SeedId(seeds, x) == CHOOSE k \in 1..Len(seeds) : seeds[k] = x.v

\* the seed-table ids of the keys that are seeded, in the order of the items
RECURSIVE SeededIds(_, _)
SeededIds(seeds, keys) ==
  IF keys = <<>> THEN <<>>
  ELSE (IF IsSeeded(seeds, Head(keys)) THEN <<SeedId(seeds, Head(keys))>> ELSE <<>>)
         \o SeededIds(seeds, Tail(keys))

KeysOf(items, field) == [k \in 1..Len(items) |-> Prop(items[k], field)]

\* the values of one column of the rows of a table that belong to a call
ColumnOf(table, call, column) ==
  LET rows == SelectSeq(table, LAMBDA row : row.callId = call)
  IN [k \in 1..Len(rows) |-> rows[k][column]]

HasNull(items) == \E k \in 1..Len(items) : items[k].t = "null"

\* storeExtraction has run to its end for the current record
StoreEnded == pc = "mark_processed" /\ callId # NoId

\* C7: an objection, technology or counter-response whose key is not seeded
\* gets no row and raises no error, and the items after it are still written:
\* when no insert failed, the rows of the call are exactly those of the seeded
\* keys, in order, and storeExtraction has not thrown.
C7_UnseededKeysAreDropped ==
  (StoreEnded /\ faults = 0
     /\ ~HasNull(extraction.team_members) /\ ~HasNull(extraction.prospect_names)) =>
    /\ [id |-> unprocessed[i].id, step |-> "extraction"] \notin caught
    /\ ColumnOf(db.call_objections, callId, "objectionId")
         = SeededIds(OBJECTION_SEEDS, KeysOf(extraction.objections, "type_key"))
    /\ ColumnOf(db.call_technologies, callId, "technologyId")
         = SeededIds(TECHNOLOGY_SEEDS, extraction.tech_stack)
    /\ ColumnOf(db.counter_responses, callId, "objectionId")
         = SeededIds(OBJECTION_SEEDS,
                     KeysOf(extraction.counter_responses, "objection_type_key"))

C7_Witness ==
  /\ StoreEnded
  /\ faults = 0
  /\ Len(extraction.objections) = 3
  /\ ~IsSeeded(OBJECTION_SEEDS, extraction.objections[1].v.type_key)
  /\ ~IsSeeded(TECHNOLOGY_SEEDS, extraction.tech_stack[1])
  /\ ColumnOf(db.call_objections, callId, "objectionId") = <<1, 8>>
  /\ ColumnOf(db.call_technologies, callId, "technologyId") = <<1, 1>>
  /\ ColumnOf(db.counter_responses, callId, "objectionId") = <<8>>
  /\ stats.extracted = 1
  /\ stats.extractionErrors = 0

\* C8: no step of a driver run changes the objections or the technologies
\* table.
VocabulariesKept ==
  /\ db'.objections = db.objections
  /\ db'.technologies = db.technologies

C8_VocabulariesAreClosed == [][VocabulariesKept]_vars

C8_Witness ==
  /\ pc = "done"
  /\ \E k \in RowIds(db.call_technologies) : db.call_technologies[k].technologyId = 1
  /\ \E k \in RowIds(db.call_objections) : db.call_objections[k].objectionId = 8
  /\ Len(db.objections) = Len(OBJECTION_SEEDS)
  /\ Len(db.technologies) = Len(TECHNOLOGY_SEEDS)

\* ------------------------------------------------------------------------
\* Properties of the extractor's normalisation
\* ------------------------------------------------------------------------

\* C9: the normalised quality score lies in 1..10: a number below 1 becomes
\* 1, above 10 becomes 10, in range stays, and anything that is missing or no
\* number becomes 5; so does the score of every Call row written from it.
C9_ScoreIsClamped ==
  pc \in {"normalized", "stored"} =>
    LET x == Prop(raw, "call_quality_score")
        v == normalized.call_quality_score
    IN /\ v \in 1..10
       /\ x.t = "num" =>
            /\ x.v < 1 => v = 1
            /\ x.v > 10 => v = 10
            /\ x.v \in 1..10 => v = x.v
       /\ x.t # "num" => v = 5
       /\ \A k \in RowIds(db.calls) : db.calls[k].callQualityScore \in 1..10

C9_Witness ==
  /\ pc = "stored"
  /\ Prop(raw, "call_quality_score") = Num(1 - ScoreSpread)
  /\ db.calls[1].callQualityScore = 1

\* ------------------------------------------------------------------------
\* Properties of the resolvers
\* ------------------------------------------------------------------------

\* an e-mail that is missing or has no "@"
NoValidEmail(e) == ~Truthy(e) \/ (e.t = "str" /\ ~includes(e.v, "@"))

\* C10: two resolutions of the same name without a valid e-mail return the
\* same team member; the store holds exactly one row with the placeholder
\* e-mail derived from the name, and it is that member's row.
C10_PlaceholderIsStable ==
  \A a, b \in DOMAIN resolved :
    ( /\ a < b
      /\ resolved[a].name = resolved[b].name
      /\ NoValidEmail(resolved[a].email)
      /\ NoValidEmail(resolved[b].email)
      /\ ~resolved[a].threw
      /\ ~resolved[b].fail ) =>
      LET placeholder == PlaceholderEmail(resolved[a].name.v)
      IN /\ ~resolved[b].threw
         /\ resolved[b].id = resolved[a].id
         /\ db.team_members[resolved[a].id].email = placeholder
         /\ Cardinality({k \in RowIds(db.team_members) :
                           db.team_members[k].email = placeholder}) = 1

C10_Witness ==
  /\ Len(resolved) = 3
  /\ resolved[1].name = Str(AlB) /\ resolved[1].email = Undef
  /\ resolved[2].name = Str(<<"4","2">>) /\ resolved[2].email = Str(<<" ">>)
  /\ resolved[3].name = Str(AlB) /\ resolved[3].email = Str(<<"n","o","p","e">>)
  /\ resolved[1].id = 1 /\ resolved[2].id = 2 /\ resolved[3].id = 1
  /\ Len(db.team_members) = 2
  /\ db.team_members[1].email = <<"a","l",".","b","@">> \o SHERLOCK_DOMAIN
  /\ db.team_members[2].email = <<"u","n","k","n","o","w","n","@">> \o SHERLOCK_DOMAIN

\* ------------------------------------------------------------------------
\* Properties of the classification step
\* ------------------------------------------------------------------------

\* the stored blob of meeting m
BlobOf(m) == MeetingCatalogue[db.raw_meetings[m].rawJson]

\* the positions of apiLog at which `api` was requested for meeting m
ApiCalls(m, api) == {k \in DOMAIN apiLog : apiLog[k] = ApiEvent(m, api)}

\* what the rule tier does on the blob of meeting m
RuleResult(m) ==
  IF EmailsMalformed(BlobOf(m)) THEN "throws" ELSE classifyByRules(BlobOf(m))

\* C11: within a run the classification model is asked at most once for a
\* record, and only for a record on which the rule tier returned null; a
\* record the rules decide (or on which they throw) causes no such request.
C11_ClassifierCalledOnceWhenInconclusive ==
  \A m \in Meetings :
    /\ Cardinality(ApiCalls(m, "classify")) <= 1
    /\ RuleResult(m) # Inconclusive => ApiCalls(m, "classify") = {}

C11_Witness ==
  /\ pc = "done"
  /\ RuleResult(1) = "sales_call"
  /\ RuleResult(2) = Inconclusive
  /\ db.raw_meetings[1].classification = "sales_call"
  /\ db.raw_meetings[2].classification = "partner_call"
  /\ ApiCalls(1, "classify") = {}
  /\ Cardinality(ApiCalls(2, "classify")) = 1

\* every address of meeting m's participant e-mail set is internal
OnlyInternalAddresses(m) ==
  /\ ~EmailsMalformed(BlobOf(m))
  /\ \A e \in getAllEmails(BlobOf(m)) : EndsWithSherlock(e)

\* meeting m is internal by its participants alone: the model is never asked,
\* nothing is extracted or stored, and the record ends as "internal"
InternalByParticipants(m) ==
  /\ ApiCalls(m, "classify") = {}
  /\ ApiCalls(m, "extract") = {}
  /\ CallsOf(db, m) = {}
  /\ db.raw_meetings[m].classification \in {"null", "internal"}
  /\ ProcessedAt(m) # NoTime => db.raw_meetings[m].classification = "internal"

\* C13 as stated: a meeting all of whose participant addresses are internal
\* is classified internal without a request to the model, is not extracted
\* and gets no Call row.  A meeting without any address satisfies the
\* condition and is not treated so.
C13_OnlyInternalAddressesIsInternal ==
  \A m \in Meetings : OnlyInternalAddresses(m) => InternalByParticipants(m)

\* C13 amended: a meeting with at least one participant address, all of them
\* internal, is classified internal whatever its text says, without a
\* request to the model, is not extracted and gets no Call row.
C13_AllInternalIsInternal ==
  \A m \in Meetings :
    (OnlyInternalAddresses(m) /\ getAllEmails(BlobOf(m)) # {})
      => InternalByParticipants(m)

C13_Witness ==
  /\ pc = "done"
  /\ db.raw_meetings[1].rawJson = 4
  /\ getAllEmails(BlobOf(1)) = {InternalAddr("a"), InternalAddr("c")}
  /\ countKeywordMatches(BlobOf(1).title, SALES_KEYWORDS) = 3
  /\ db.raw_meetings[1].classification = "internal"
  /\ ProcessedAt(1) # NoTime
  /\ stats.internal = 1
  /\ CallsOf(db, 1) = {}

\* the records whose classification raised in this run
ClassificationCaught == {e.id : e \in {c \in caught : c.step = "classification"}}

\* C14: a record whose classification raised (the rule tier on a malformed
\* blob, or the request to the model) is classified other, that value is
\* written to its row, and the loop goes on: the run ends early only through
\* a fatal error, and a run that reaches the summary has marked every record
\* of its backlog.
C14_ClassificationFailureIsOther ==
  /\ \A m \in ClassificationCaught :
       /\ (pc \in Running /\ unprocessed[i].id = m) => classification = "other"
       /\ (pc \in Running \ {"write_classification"} /\ unprocessed[i].id = m)
            => db.raw_meetings[m].classification = "other"
       /\ Finished(m) => /\ db.raw_meetings[m].classification = "other"
                         /\ ProcessedAt(m) # NoTime
  /\ pc = "crashed" => faults > 0
  /\ pc = "done" => \A m \in BacklogIds : ProcessedAt(m) # NoTime

C14_Witness ==
  /\ pc = "done"
  /\ faults = 0
  /\ EmailsMalformed(BlobOf(1))
  /\ ClassificationCaught = {1}
  /\ db.raw_meetings[1].classification = "other"
  /\ db.raw_meetings[2].classification = "sales_call"
  /\ ApiCalls(2, "classify") # {}
  /\ ProcessedAt(1) # NoTime
  /\ ProcessedAt(2) # NoTime

\* the records of this run whose request to the classification model failed
ModelCallFailed == {m \in ClassificationCaught : ApiCalls(m, "classify") # {}}

\* the records of the finished run that are classified other although their
\* request to the model, if any, did not fail
DeliberatelyOther ==
  {m \in BacklogIds : /\ db.raw_meetings[m].classification = "other"
                      /\ m \notin ModelCallFailed}

\* C15: a failed request to the classification model surfaces in the driver
\* as a failure (the catch block is entered), and the statistics of the run
\* keep such records apart from the records deliberately classified other:
\* the counter of other does not include them.
C15_FailedClassificationsCountedApart ==
  pc = "done" => stats.other = Cardinality(DeliberatelyOther)

\* ------------------------------------------------------------------------
\* Properties of the extraction step
\* ------------------------------------------------------------------------

\* the extraction model is asked for sales calls with a transcript of at
\* least minLen characters only
ExtractionOnlyFor(minLen) ==
  \A m \in Meetings :
    ApiCalls(m, "extract") # {} =>
      /\ db.raw_meetings[m].classification = "sales_call"
      /\ BlobOf(m).transcript_len >= minLen

\* a record with a transcript below the minimum is never extracted and is
\* marked processed like any other
ShortTranscriptSkipped ==
  \A m \in Meetings :
    BlobOf(m).transcript_len < MIN_TRANSCRIPT =>
      /\ ApiCalls(m, "extract") = {}
      /\ CallsOf(db, m) = {}
      /\ Finished(m) => ProcessedAt(m) # NoTime

\* the step of a sales record with a short transcript changes no counter and
\* no table and goes on to the mark-processed update
SkipIsNoError ==
  ( /\ pc = "extract"
    /\ pc' # "crashed"
    /\ Blob(unprocessed[i]).transcript_len < MIN_TRANSCRIPT ) =>
      /\ stats' = stats
      /\ caught' = caught
      /\ apiLog' = apiLog
      /\ db' = db
      /\ pc' = "mark_processed"

\* C16 as stated: the extraction model is asked for a record only if it is
\* classified sales_call and its transcript is longer than 50 characters; a
\* sales record with a shorter transcript causes no request and no Call row,
\* changes neither the extracted nor the extraction-error counter, and is
\* marked processed.
C16_ExtractionNeedsMoreThanMinimum ==
  /\ [](ExtractionOnlyFor(MIN_TRANSCRIPT + 1) /\ ShortTranscriptSkipped)
  /\ [][SkipIsNoError]_vars

\* C16 amended: ... and its transcript has at least 50 characters; the rest
\* as stated.
C16_ExtractionNeedsMinimum ==
  /\ [](ExtractionOnlyFor(MIN_TRANSCRIPT) /\ ShortTranscriptSkipped)
  /\ [][SkipIsNoError]_vars

C16_Witness ==
  /\ pc = "done"
  /\ db.raw_meetings[1].classification = "sales_call"
  /\ db.raw_meetings[2].classification = "sales_call"
  /\ BlobOf(1).transcript_len >= MIN_TRANSCRIPT
  /\ BlobOf(2).transcript_len = 20
  /\ ApiCalls(1, "extract") # {}
  /\ ApiCalls(2, "extract") = {}
  /\ CallsOf(db, 2) = {}
  /\ stats.sales_call = 2
  /\ stats.extracted = 1
  /\ stats.extractionErrors = 0
  /\ ProcessedAt(2) # NoTime

\* ------------------------------------------------------------------------
\* Properties of storeExtraction
\* ------------------------------------------------------------------------

\* the tables whose rows belong to a Call
ChildTables ==
  { "call_team_members", "call_prospect_contacts", "call_technologies",
    "call_objections", "call_follow_ups", "prospect_questions", "key_quotes",
    "counter_responses" }

\* every child row references a Call row that exists
ChildRowsOwned ==
  \A t \in ChildTables : \A k \in RowIds(db[t]) : db[t][k].callId \in RowIds(db.calls)

\* child rows are written only by the loops of storeExtraction, after the
\* Call row of the current record was inserted, and for that Call
ChildrenAfterCall ==
  (\E t \in ChildTables : db'[t] # db[t]) =>
    /\ pc = "store_children"
    /\ callId \in RowIds(db.calls)
    /\ db.calls[callId].rawMeetingId = unprocessed[i].id
    /\ db'.calls = db.calls
    /\ \A t \in ChildTables :
         /\ Len(db'[t]) >= Len(db[t])
         /\ SubSeq(db'[t], 1, Len(db[t])) = db[t]
         /\ \A k \in (Len(db[t]) + 1)..Len(db'[t]) : db'[t][k].callId = callId

\* a Call insert that fails is followed by no child insert for the record
FailedCallHasNoChildren ==
  (pc = "store_call" /\ db'.calls = db.calls) =>
    /\ \A t \in ChildTables : db'[t] = db[t]
    /\ pc' \in {"mark_processed", "crashed"}
    /\ callId' = NoId

\* C17: storeExtraction inserts the Call row before it attempts any child or
\* join row; every row of the child and join tables references a Call row
\* that exists; and when the Call insert fails, no child row is written for
\* the record.
C17_CallBeforeChildren ==
  /\ []ChildRowsOwned
  /\ [][ChildrenAfterCall /\ FailedCallHasNoChildren]_vars

C17_Witness ==
  /\ pc = "done"
  /\ faults = 1
  /\ Len(db.companies) = 2
  /\ CallsOf(db, 1) = {}
  /\ CallsOf(db, 2) = {1}
  /\ Len(db.call_team_members) = 2
  /\ Len(db.call_objections) = 2
  /\ Len(db.counter_responses) = 1
  /\ \A t \in ChildTables : \A k \in RowIds(db[t]) : db[t][k].callId = 1

\* a failure while resolving the company is skipped: storeExtraction goes on
\* to the Call insert
CompanyFailureSkipped ==
  (pc = "store_company" /\ pc' # "crashed") => pc' = "store_call"

\* a failure on an item of the loops is skipped: the loops run to their end,
\* the record counts as extracted, and the Call row stays
ItemFailureSkipped ==
  (pc = "store_children" /\ pc' # "crashed") =>
    /\ pc' = "mark_processed"
    /\ stats'.extracted = stats.extracted + 1
    /\ stats'.extractionErrors = stats.extractionErrors
    /\ db'.calls = db.calls

\* C18: in storeExtraction a failure of the company, team-member or
\* prospect-contact resolution, or of a link insert, is caught and skipped
\* for that item: the remaining items are processed and the Call row is
\* neither prevented nor undone.
C18_ItemFailuresAreSkipped ==
  [][CompanyFailureSkipped /\ ItemFailureSkipped]_vars

\* ------------------------------------------------------------------------
\* Properties of a run that ends in a fatal error
\* ------------------------------------------------------------------------

\* while a run is under way, and after it died, the records it has not yet
\* marked have no processed timestamp and the ones before them have one
MarkedUpToCurrent ==
  pc \in Running \cup {"crashed"} =>
    \A k \in 1..Len(unprocessed) :
      (ProcessedAt(unprocessed[k].id) = NoTime) <=> (k >= i)

\* the fatal error writes nothing, and the dead run takes no further step
RunTerminates ==
  /\ (pc # "crashed" /\ pc' = "crashed") => db' = db
  /\ pc = "crashed" => (runs' = runs + 1 /\ db' = db)

\* the run started after a fatal error finds in its backlog the records the
\* dead run had not marked, and no other
NextRunRetries ==
  (pc = "crashed" /\ runs' = runs + 1) =>
    /\ unprocessed' = SubSeq(unprocessed, i, Len(unprocessed))
    /\ BacklogIds' = {m \in Meetings : ProcessedAt(m) = NoTime}

\* C19: when an error escapes the per-record guards (the classification
\* write-back or the mark-processed update fails, the process dies) the run
\* terminates; every record not yet marked processed keeps its absent
\* timestamp and is in the backlog of the next run, and the records already
\* marked are not.
C19_FatalErrorLeavesBacklog ==
  /\ []MarkedUpToCurrent
  /\ [][RunTerminates /\ NextRunRetries]_vars

C19_Witness ==
  /\ runs = 2
  /\ faults = 1
  /\ pc = "classify"
  /\ unprocessed = <<[id |-> 2, rawJson |-> db.raw_meetings[2].rawJson]>>
  /\ ProcessedAt(1) # NoTime
  /\ ProcessedAt(2) = NoTime
  /\ db.raw_meetings[2].classification = "sales_call"
  /\ CallsOf(db, 2) # {}

\* ------------------------------------------------------------------------
\* Properties of ingestion
\* ------------------------------------------------------------------------

\* no two rows of raw_meetings carry the same Fireflies identifier
OneRowPerFirefliesId ==
  \A a, b \in RowIds(db.raw_meetings) :
    db.raw_meetings[a].firefliesId = db.raw_meetings[b].firefliesId => a = b

\* the transcript the store loop is at
PullCurrent == pull.filtered[pull.k]

\* storing a transcript whose identifier has a row adds no row: the row
\* takes the new title, date, duration and blob (or, when the write is
\* rejected, nothing changes)
ReingestionUpdates ==
  ( /\ pull.pc = "store"
    /\ SelectFirst(db.raw_meetings, "firefliesId", PullCurrent.id) # NoId ) =>
      LET row == SelectFirst(db.raw_meetings, "firefliesId", PullCurrent.id)
          v == RawMeetingValues(PullCurrent)
      IN /\ Len(db'.raw_meetings) = Len(db.raw_meetings)
         /\ \A k \in RowIds(db.raw_meetings) \ {row} :
              db'.raw_meetings[k] = db.raw_meetings[k]
         /\ \/ pull'.skipped = pull.skipped + 1 /\ db' = db
            \/ /\ pull'.inserted = pull.inserted + 1
               /\ db'.raw_meetings[row].firefliesId = PullCurrent.id
               /\ db'.raw_meetings[row].rawJson = v.rawJson
               /\ db'.raw_meetings[row].title = v.title
               /\ db'.raw_meetings[row].date = v.date
               /\ db'.raw_meetings[row].duration = v.duration

\* C20: after any sequence of ingestion runs raw_meetings holds at most one
\* row per Fireflies identifier; ingesting an identifier that is already
\* stored updates its row and inserts none.
C20_OneRowPerExternalId ==
  /\ []OneRowPerFirefliesId
  /\ [][ReingestionUpdates]_vars

C20_Witness ==
  /\ pull.pc = "summary"
  /\ pull.runs = 2
  /\ pull.filtered = <<Transcript(1, 1), Transcript(1, 2)>>
  /\ pull.inserted = 2
  /\ Len(db.raw_meetings) = 2
  /\ db.raw_meetings[1].firefliesId = 2
  /\ db.raw_meetings[1].duration = 12
  /\ db.raw_meetings[2].firefliesId = 1
  /\ db.raw_meetings[2].rawJson = 2
  /\ db.raw_meetings[2].duration = NoDuration

\* ------------------------------------------------------------------------
\* Properties of the driver's writes to raw_meetings
\* ------------------------------------------------------------------------

\* the columns of a raw_meetings row that ingestion owns
IngestedColumns(row) ==
  [ firefliesId |-> row.firefliesId, title |-> row.title, date |-> row.date,
    duration |-> row.duration, rawJson |-> row.rawJson ]

\* a step keeps every row of raw_meetings and its ingested columns
RawMeetingsFramed ==
  /\ Len(db'.raw_meetings) = Len(db.raw_meetings)
  /\ \A m \in RowIds(db.raw_meetings) :
       IngestedColumns(db'.raw_meetings[m]) = IngestedColumns(db.raw_meetings[m])

\* C21: on raw_meetings the driver writes the classification and the
\* processed timestamp only: the external id, title, date, duration and blob
\* of every record are unchanged by every step of every run, and no row is
\* deleted.
C21_DriverWritesTwoColumns == [][RawMeetingsFramed]_vars

C21_Witness ==
  /\ pc = "done"
  /\ db.calls # <<>>
  /\ \A m \in Meetings :
       /\ db.raw_meetings[m].classification # "null"
       /\ ProcessedAt(m) # NoTime
       /\ IngestedColumns(db.raw_meetings[m])
            = IngestedColumns(NewRawMeeting(Transcript(m, db.raw_meetings[m].rawJson)))

\* ------------------------------------------------------------------------
\* Properties of the ingestion filters
\* ------------------------------------------------------------------------

\* the e-mail set of blob b has an internal address and an address that is
\* neither internal nor excluded
Admissible(b) ==
  /\ ~EmailsMalformed(MeetingCatalogue[b])
  /\ \E e \in getAllEmails(MeetingCatalogue[b]) : EndsWithSherlock(e)
  /\ \E e \in getAllEmails(MeetingCatalogue[b]) :
       ~EndsWithSherlock(e) /\ e \notin EXCLUDED_EMAILS

\* C22: ingestion stores a fetched transcript only if its e-mail set has at
\* least one internal address and at least one address that is neither
\* internal nor in the excluded list: the transcripts handed to the store
\* loop, and the blobs of the rows, are all of that kind.
C22_OnlyAdmissibleStored ==
  /\ \A k \in DOMAIN pull.filtered : Admissible(pull.filtered[k].blob)
  /\ \A m \in RowIds(db.raw_meetings) : Admissible(db.raw_meetings[m].rawJson)

C22_Witness ==
  /\ pull.pc = "summary"
  /\ pull.runs = 2
  /\ pull.stats.total = 2
  /\ pull.stats.noExternal = 1
  /\ pull.stats.passed = 1
  /\ pull.inserted = 1
  /\ Len(db.raw_meetings) = 2
  /\ db.raw_meetings[1].firefliesId = 1
  /\ db.raw_meetings[2].firefliesId = 2
  /\ db.raw_meetings[2].rawJson = 3

\* ------------------------------------------------------------------------
\* Properties of the classifier
\* ------------------------------------------------------------------------

\* the text corpus of a blob: the text fields in the order they are joined
CorpusOf(data) ==
  data.title \o data.summary.meeting_type \o data.summary.overview
    \o data.summary.keywords \o data.summary.short_summary
    \o data.summary.topics_discussed

\* number of distinct keywords of a vocabulary present in a text
DistinctHits(text, vocabulary) ==
  Cardinality({kw \in vocabulary :
                 \E at \in 1..Len(text) :
                   /\ at + Len(kw) - 1 <= Len(text)
                   /\ SubSeq(text, at, at + Len(kw) - 1) = kw})

HasWord(text, words) == \E k \in 1..Len(text) : text[k] \in words

\* the ordered decision list, for a blob whose participants are not all
\* internal
DecisionList(data) ==
  LET corpus == CorpusOf(data)
      salesScore == DistinctHits(corpus, SALES_KEYWORDS)
      partnerScore == DistinctHits(corpus, PARTNER_KEYWORDS)
      internalScore == DistinctHits(corpus, INTERNAL_KEYWORDS)
      type == data.summary.meeting_type
      external == \E e \in getAllEmails(data) : ~EndsWithSherlock(e)
  IN << [when |-> corpus = <<>>, then |-> Inconclusive],
        [when |-> salesScore >= 3 /\ salesScore > partnerScore
                    /\ salesScore > internalScore,
         then |-> "sales_call"],
        [when |-> partnerScore >= 2 /\ partnerScore > salesScore,
         then |-> "partner_call"],
        [when |-> internalScore >= 2 /\ internalScore > salesScore,
         then |-> "internal"],
        [when |-> HasWord(type, {"sales", "discovery", "pitch"}),
         then |-> "sales_call"],
        [when |-> HasWord(type, {"internal", "standup", "team"}),
         then |-> "internal"],
        [when |-> salesScore >= 1 /\ external, then |-> "sales_call"],
        [when |-> TRUE, then |-> Inconclusive] >>

FirstMatch(list) ==
  list[CHOOSE k \in DOMAIN list :
         list[k].when /\ \A j \in 1..(k - 1) : ~list[j].when].then

NotAllInternal(data) ==
  ~(/\ \E e \in getAllEmails(data) : EndsWithSherlock(e)
    /\ \A e \in getAllEmails(data) : EndsWithSherlock(e))

\* C23: for a blob whose participants are not all internal, classifyByRules
\* returns the first matching outcome of the ordered decision list, the
\* scores being the numbers of distinct keywords present in the corpus; an
\* empty corpus is inconclusive.
C23_RulesFollowDecisionList ==
  (pc \in {"ruled", "answered"} /\ NotAllInternal(sample))
    => verdict.rules = FirstMatch(DecisionList(sample))

\* the partner score is 2 and the internal score 4: the earlier rule wins
C23_Witness ==
  /\ pc = "ruled"
  /\ NotAllInternal(sample)
  /\ sample.title = <<"vendor", "conference">>
  /\ sample.summary.meeting_type = <<"sales", "team">>
  /\ sample.summary.overview = <<"sprint", "retro", "1:1", "standup">>
  /\ verdict.rules = "partner_call"

\* the answer, lower-cased and stripped to a-z and underscore
Cleaned(response) ==
  SelectSeq([k \in 1..Len(response) |-> LowerChar(response[k])],
            LAMBDA c : IsLowerAZ(c) \/ c = "_")

\* C24: classifyByLLM returns one of the four categories for every answer
\* of the model: the cleaned answer if it spells a category, other if not.
C24_AnswerIsACategory ==
  pc = "answered" =>
    /\ verdict.llm \in Categories
    /\ \A c \in Categories :
         Cleaned(verdict.response) = CategoryChars[c] => verdict.llm = c
    /\ (\A c \in Categories : Cleaned(verdict.response) # CategoryChars[c])
         => verdict.llm = "other"

C24_Witness ==
  /\ pc = "answered"
  /\ verdict.response = <<" ","I","n","t","e","r","n","a","l",".","\n">>
  /\ verdict.llm = "internal"

\* ------------------------------------------------------------------------
\* Properties of the company and prospect-contact resolvers
\* ------------------------------------------------------------------------

\* the logged resolutions of one kind
Resolutions(kind) == {k \in DOMAIN resolved : resolved[k].kind = kind}

\* an empty or "Unknown" company name
IsPlaceholderName(name) == trim(name.v) \in {<<>>, UnknownName}

PlaceholderResolutions ==
  {k \in Resolutions("company") : IsPlaceholderName(resolved[k].name)}

NamedResolutions == Resolutions("company") \ PlaceholderResolutions

\* C25: every resolution of an empty or "Unknown" company name succeeds,
\* unless the store itself fails, and inserts a row whose name no earlier
\* row has; two such resolutions never return the same identity.
C25_PlaceholderCompanyIsFresh ==
  \A b \in PlaceholderResolutions :
    ~resolved[b].fail =>
      /\ ~resolved[b].threw
      /\ resolved[b].created
      /\ \A k \in 1..(resolved[b].id - 1) :
           db.companies[k].name # db.companies[resolved[b].id].name
      /\ \A a \in PlaceholderResolutions :
           (a # b /\ ~resolved[a].threw) => resolved[a].id # resolved[b].id

C25_Witness ==
  /\ Len(resolved) = 3
  /\ resolved[1].name = Str(<<>>) /\ resolved[1].id = 2
  /\ resolved[2].name = Str(Acme) /\ resolved[2].id = 3
  /\ resolved[3].name = Str(<<" ">> \o UnknownName) /\ resolved[3].id = 4
  /\ Len(db.companies) = 4
  /\ db.companies[2].name = PlaceholderCompanyName(API_DELAY)
  /\ db.companies[4].name = PlaceholderCompanyName(3 * API_DELAY)

\* the first successful resolution of the trimmed name of resolution b
FirstOf(b) ==
  CHOOSE a \in Resolutions(resolved[b].kind) :
    /\ ~resolved[a].threw
    /\ trim(resolved[a].name.v) = trim(resolved[b].name.v)
    /\ \A c \in Resolutions(resolved[b].kind) :
         (~resolved[c].threw /\ trim(resolved[c].name.v) = trim(resolved[b].name.v))
           => a <= c

\* C26: sequential resolutions of one company name, up to surrounding
\* whitespace, return one identity, whose row carries the trimmed name and
\* is created by the first of them only; no two Company rows share a name.
C26_CompanyUniqueByTrimmedName ==
  /\ \A b \in NamedResolutions :
       ~resolved[b].fail =>
         /\ ~resolved[b].threw
         /\ resolved[b].id = resolved[FirstOf(b)].id
         /\ db.companies[resolved[b].id].name = trim(resolved[b].name.v)
         /\ resolved[b].created <=> b = FirstOf(b)
  /\ \A j, k \in RowIds(db.companies) :
       j # k => db.companies[j].name # db.companies[k].name

C26_Witness ==
  /\ Len(resolved) = 3
  /\ resolved[1].name = Str(<<" ">> \o Acme \o <<" ">>) /\ resolved[1].created
  /\ resolved[2].name = Str(<<"a","c","m","e">>) /\ resolved[2].created
  /\ resolved[3].name = Str(Acme) /\ ~resolved[3].created
  /\ resolved[3].id = resolved[1].id
  /\ Len(db.companies) = 3

ValidEmail(e) == e.t = "str" /\ includes(trim(e.v), "@")

\* the e-mail lower-cased character by character, then trimmed
Canonical(e) == trim([k \in 1..Len(e.v) |-> LowerChar(e.v[k])])

\* C27: team-member resolutions whose e-mails are equal after trimming and
\* lower-casing return one identity; no two TeamMember rows share an e-mail.
C27_TeamMemberUniqueByEmail ==
  /\ \A a, b \in DOMAIN resolved :
       ( /\ a < b
         /\ ValidEmail(resolved[a].email)
         /\ ValidEmail(resolved[b].email)
         /\ Canonical(resolved[a].email) = Canonical(resolved[b].email)
         /\ ~resolved[a].threw
         /\ ~resolved[b].fail ) =>
         /\ ~resolved[b].threw
         /\ resolved[b].id = resolved[a].id
  /\ \A j, k \in RowIds(db.team_members) :
       j # k => db.team_members[j].email # db.team_members[k].email

C27_Witness ==
  /\ Len(resolved) = 3
  /\ resolved[1].name = Str(<<"4","2">>)
  /\ resolved[1].email = Str(<<" ","A","l",".","B","@">> \o SHERLOCK_DOMAIN)
  /\ resolved[2].name = Str(<<"4","2">>) /\ resolved[2].email = Undef
  /\ resolved[3].name = Str(AlB)
  /\ resolved[3].email = Str(<<"a","l",".","b","@">> \o SHERLOCK_DOMAIN)
  /\ resolved[1].id = 1 /\ resolved[2].id = 2 /\ resolved[3].id = 1
  /\ Len(db.team_members) = 2

\* ------------------------------------------------------------------------
\* Properties of the order of the steps of one record
\* ------------------------------------------------------------------------

\* positions of main inside step 2 of a record
ExtractionSteps == {"extract", "store_company", "store_call", "store_children"}

\* while step 2 of a record is under way, and whenever this run called the
\* extraction model for a record or a Call exists for it, the record's
\* classification is in the store
ClassificationStoredFirst ==
  /\ pc \in ExtractionSteps =>
       db.raw_meetings[unprocessed[i].id].classification = "sales_call"
  /\ \A m \in Meetings :
       (ApiCalls(m, "extract") # {} \/ CallsOf(db, m) # {})
         => db.raw_meetings[m].classification # "null"

\* a crash inside step 2 leaves the record classified and unprocessed
CrashInExtraction ==
  (pc \in ExtractionSteps /\ pc' = "crashed") =>
    /\ db'.raw_meetings[unprocessed[i].id].classification = classification
    /\ classification # "null"
    /\ db'.raw_meetings[unprocessed[i].id].processedAt = NoTime

\* C29: the classification of a record is written before the extraction
\* call and before any Company or Call write for it; after a crash during
\* extraction the record has its classification and no processed timestamp.
C29_ClassificationSurvivesCrash ==
  []ClassificationStoredFirst /\ [][CrashInExtraction]_vars

C29_Witness ==
  /\ pc = "crashed"
  /\ i = 1
  /\ ApiCalls(unprocessed[1].id, "extract") # {}
  /\ db.companies # <<>>
  /\ db.calls = <<>>
  /\ db.raw_meetings[unprocessed[1].id].classification = "sales_call"
  /\ db.raw_meetings[unprocessed[1].id].processedAt = NoTime

\* ------------------------------------------------------------------------
\* Properties of the rate limiting
\* ------------------------------------------------------------------------

\* the calls of this run to a model
ModelCalls == {k \in DOMAIN apiLog : apiLog[k].api \in {"classify", "extract"}}

\* C30: every call to a model in a driver run, classification or extraction,
\* comes right after the fixed delay slept for the same record: nothing
\* lies between the delay and the call.
C30_EveryModelCallDelayed ==
  \A k \in ModelCalls :
    k > 1 /\ apiLog[k - 1] = ApiEvent(apiLog[k].id, "sleep")

\* ------------------------------------------------------------------------
\* Properties of normalizeResult
\* ------------------------------------------------------------------------

ArrayFields ==
  { "prospect_names", "team_members", "tech_stack", "objections",
    "prospect_questions", "key_quotes", "follow_up_actions", "counter_responses" }

\* the documented defaults of the fields that are no arrays and no score
FieldDefaults ==
  [ call_type |-> Tok("discovery"), offering_pitched |-> Tok("none"),
    company_name |-> Str(UnknownName), call_outcome |-> Tok("neutral"),
    quality_rationale |-> Tok(""), deal_size |-> Null ]

\* C31: for a parsed JSON object, each of the eight array fields of the
\* result is the input array, or the empty array when the input field is
\* missing or no array, and each of the six defaulted fields has its
\* documented default when the input field is absent.
C31_MissingFieldsGetDefaults ==
  (pc \in {"normalized", "stored"} /\ raw.t = "obj") =>
    /\ \A f \in ArrayFields :
         normalized[f] = (IF Prop(raw, f).t = "arr" THEN Prop(raw, f).v ELSE <<>>)
    /\ \A f \in DOMAIN FieldDefaults :
         f \notin DOMAIN raw.v => normalized[f] = FieldDefaults[f]

C31_Witness ==
  /\ pc = "normalized"
  /\ raw = MixedOutput
  /\ normalized.team_members = <<>>
  /\ normalized.objections = <<>>
  /\ normalized.tech_stack = <<Tok("Solidity"), Tok("Solidity")>>
  /\ normalized.call_type = Tok("discovery")
  /\ normalized.deal_size = Null

\* ------------------------------------------------------------------------
\* Properties of the rows written for one call
\* ------------------------------------------------------------------------

\* number of rows of a table that belong to a call
RowsOf(table, call) ==
  Cardinality({k \in RowIds(db[table]) : db[table][k].callId = call})

\* number of items whose key is in a seed list
SeededCount(seeds, items, field) ==
  Cardinality({k \in 1..Len(items) :
                 \E j \in 1..Len(seeds) : Prop(items[k], field) = Tok(seeds[j])})

\* number of technology names in the seed list
SeededNames(items) ==
  Cardinality({k \in 1..Len(items) :
                 \E j \in 1..Len(TECHNOLOGY_SEEDS) : items[k] = Tok(TECHNOLOGY_SEEDS[j])})

\* number of questions that are not blank
NonBlank(items) ==
  Cardinality({k \in 1..Len(items) :
                 items[k].t = "str" /\ \E j \in 1..Len(items[k].v) : ~IsSpace(items[k].v[j])})

\* storeExtraction ran to its end for the current record and no write of
\* the behaviour failed
StoredWithoutFailure ==
  /\ pc = "mark_processed"
  /\ callId # NoId
  /\ faults = 0
  /\ [id |-> unprocessed[i].id, step |-> "extraction"] \notin caught

C35_ProcessedImpliesClassified ==
  \A m \in Meetings :
    ProcessedAt(m) # NoTime => db.raw_meetings[m].classification \in Categories

\* a run that ended, one of its records classified by the catch block
C35_Witness ==
  /\ pc = "done"
  /\ caught # {}
  /\ \A m \in Meetings :
       /\ ProcessedAt(m) # NoTime
       /\ db.raw_meetings[m].classification \in Categories
  /\ \E m \in Meetings :
       /\ [id |-> m, step |-> "classification"] \in caught
       /\ db.raw_meetings[m].classification = "other"

\* ------------------------------------------------------------------------
\* Properties of model answers that are JSON values but no objects
\* ------------------------------------------------------------------------

\* the answers that are nothing but a JSON number, string, boolean or array
NonObjectAnswers ==
  {k \in DOMAIN ExtractionResponses :
     /\ ~ExtractionResponses[k].lead
     /\ ExtractionResponses[k].body.t \in {"num", "str", "tok", "bool", "arr"}}

\* the result with company "Unknown", score 5 and empty arrays
IsAllDefaults(e) ==
  /\ e.company_name = Str(UnknownName)
  /\ e.call_quality_score = 5
  /\ \A f \in ArrayFields : e[f] = <<>>

\* extractSalesCall returns the defaults for every such answer
NonObjectsParse ==
  \A k \in NonObjectAnswers :
    /\ extractSalesCall(ExtractionResponses[k]).ok
    /\ IsAllDefaults(extractSalesCall(ExtractionResponses[k]).result)

\* the errors counted are the entries of the catch block of step 2
ErrorsAreCaught ==
  stats.extractionErrors = Cardinality({c \in caught : c.step = "extraction"})

\* the record stored from the defaults has a Call of score 5 whose company
\* is a placeholder no other Call refers to, and it is counted as extracted
DefaultsAreStored ==
  (StoredWithoutFailure /\ IsAllDefaults(extraction)) =>
    /\ ErrorsAreCaught
    /\ stats.extracted >= 1
    /\ db.calls[callId].rawMeetingId = unprocessed[i].id
    /\ db.calls[callId].callQualityScore = 5
    /\ db.calls[callId].companyId = companyId
    /\ db.companies[companyId].name = PlaceholderCompanyName(now)
    /\ \A k \in RowIds(db.calls) :
         db.calls[k].companyId = companyId => k = callId

\* C37: an answer that is valid JSON but no object raises no parse error:
\* extractSalesCall returns the all-defaults result, and the driver stores a
\* Call linked to a fresh placeholder company and counts the record as
\* extracted, not as an extraction error.
C37_NonObjectAnswerIsExtracted == NonObjectsParse /\ DefaultsAreStored

C37_Witness ==
  /\ NonObjectAnswers # {}
  /\ StoredWithoutFailure
  /\ IsAllDefaults(extraction)
  /\ stats.extracted = 1
  /\ stats.extractionErrors = 0
  /\ Len(db.calls) = 1
  /\ db.companies[db.calls[1].companyId].name = PlaceholderCompanyName(now)

\* ------------------------------------------------------------------------
\* Properties of ingested records under the classifier
\* ------------------------------------------------------------------------

\* the classifier's first rule applies to a blob
AllInternalRuleFires(data) ==
  LET emails == getAllEmails(data)
  IN (\E e \in emails : EndsWithSherlock(e)) /\ (\A e \in emails : EndsWithSherlock(e))

\* C38: every stored record that ingestion admitted has an address that is
\* not internal, so the classifier's all-internal rule does not apply to it
\* and what the rules return for it is what the keyword and meeting-type
\* rules return.
C38_IngestedNeverAllInternal ==
  \A m \in RowIds(db.raw_meetings) :
    LET data == MeetingCatalogue[db.raw_meetings[m].rawJson]
    IN /\ \E e \in getAllEmails(data) : ~EndsWithSherlock(e)
       /\ ~AllInternalRuleFires(data)
       /\ classifyByRules(data) = FirstMatch(DecisionList(data))

\* one fetched transcript was dropped for want of an outside participant,
\* the other is stored and left to the model tier
C38_Witness ==
  /\ pull.pc = "summary"
  /\ pull.runs = 1
  /\ pull.stats.total = 2
  /\ pull.stats.noExternal = 1
  /\ pull.inserted = 1
  /\ Len(db.raw_meetings) = 1
  /\ db.raw_meetings[1].rawJson = 2
  /\ classifyByRules(MeetingCatalogue[2]) = Inconclusive

\* ------------------------------------------------------------------------
\* C39: the repair is idempotent on links
\* ------------------------------------------------------------------------

\* the (call, team member) pairs of a link table
LinkPairs(table) ==
  { <<table[k].callId, table[k].teamMemberId>> : k \in RowIds(table) }

\* the rows a step appended to call_team_members
NewLinks == SubSeq(db'.call_team_members, Len(db.call_team_members) + 1,
                   Len(db'.call_team_members))

\* a repair step appends links only, each for a pair that had no link, and
\* no pair twice
RepairAddsMissingLinksOnly ==
  /\ Len(db'.call_team_members) >= Len(db.call_team_members)
  /\ SubSeq(db'.call_team_members, 1, Len(db.call_team_members))
       = db.call_team_members
  /\ LinkPairs(NewLinks) \cap LinkPairs(db.call_team_members) = {}
  /\ Cardinality(LinkPairs(NewLinks)) = Len(NewLinks)

\* a run that follows a run in which no write failed inserts nothing
SecondRepairLinksNothing ==
  (faults = 0 /\ Len(repair.history) >= 2) => repair.history[2] = 0

\* C39: the repair script inserts a call_team_members link only for a
\* (call, team member) pair that has none: it never adds a second link for a
\* linked pair, and a second run, after a first one whose writes all
\* succeeded, inserts zero links.
C39_RepairIsIdempotent ==
  []SecondRepairLinksNothing /\ [][RepairAddsMissingLinksOnly]_vars

\* two runs ended over a store holding the meeting whose attendee list names
\* one member twice: the first linked members, the second only found links
C39_Witness ==
  /\ faults = 0
  /\ Len(repair.history) = 2
  /\ repair.history[1] >= 2
  /\ repair.history[2] = 0
  /\ repair.skipped > repair.history[1]
  /\ \E m \in RowIds(db.raw_meetings) : db.raw_meetings[m].rawJson = 4

\* ------------------------------------------------------------------------
\* C36: re-ingestion and the backlog
\* ------------------------------------------------------------------------

\* the columns of a raw_meetings row that the driver owns
DriverColumns(row) ==
  [classification |-> row.classification, processedAt |-> row.processedAt]

\* the store loop is at a transcript whose identifier has a row
AtStoredTranscript ==
  /\ pull.pc = "store"
  /\ SelectFirst(db.raw_meetings, "firefliesId", PullCurrent.id) # NoId

\* upserting a stored meeting rewrites title, date, duration and blob from
\* the fetched transcript and keeps classification and processed_at
ReingestionKeepsDriverColumns ==
  AtStoredTranscript =>
    LET row == SelectFirst(db.raw_meetings, "firefliesId", PullCurrent.id)
        v == RawMeetingValues(PullCurrent)
    IN /\ Len(db'.raw_meetings) = Len(db.raw_meetings)
       /\ \A k \in RowIds(db.raw_meetings) :
            DriverColumns(db'.raw_meetings[k]) = DriverColumns(db.raw_meetings[k])
       /\ pull'.inserted = pull.inserted + 1 =>
            /\ db'.raw_meetings[row].rawJson = v.rawJson
            /\ db'.raw_meetings[row].title = v.title
            /\ db'.raw_meetings[row].date = v.date
            /\ db'.raw_meetings[row].duration = v.duration

\* the requests a run has sent to the model for meeting m
RequestsFor(log, m) ==
  Len(SelectSeq(log, LAMBDA e : e.id = m /\ e.api # "sleep"))

\* a processed meeting stays processed whatever is ingested or run next: it
\* is on no backlog, no request is sent for it and its Call rows stay
ProcessedStaysProcessed ==
  \A m \in Meetings :
    ProcessedAt(m) # NoTime =>
      /\ DriverColumns(db'.raw_meetings[m]) = DriverColumns(db.raw_meetings[m])
      /\ \A k \in 1..Len(Backlog(db')) : Backlog(db')[k].id # m
      /\ \A k \in 1..Len(unprocessed') :
           unprocessed'[k].id = m => unprocessed' = unprocessed
      /\ RequestsFor(apiLog', m) <= RequestsFor(apiLog, m)
      /\ CallsOf(db', m) = CallsOf(db, m)

\* C36: re-ingesting a stored meeting overwrites its title, date, duration
\* and blob and leaves classification and processed_at as they were; a
\* processed meeting therefore never returns to the backlog and is not
\* extracted again, even when the transcript it was extracted from changed.
C36_ReingestionKeepsProcessed ==
  [][ReingestionKeepsDriverColumns /\ ProcessedStaysProcessed]_vars

\* meeting 1 was extracted from the first version of its transcript, then
\* ingested again in its second version, and the next run found no backlog
C36_Witness ==
  /\ runs = 2
  /\ pc = "done"
  /\ unprocessed = <<>>
  /\ pull.pc = "done"
  /\ db.raw_meetings[1].rawJson = 2
  /\ db.raw_meetings[1].title = MeetingCatalogue[2].title
  /\ db.raw_meetings[1].classification = "sales_call"
  /\ db.raw_meetings[1].processedAt # NoTime
  /\ Cardinality(CallsOf(db, 1)) = 1
  /\ apiLog = <<>>

\* ------------------------------------------------------------------------
\* C33, C34: two driver processes at once
\* ------------------------------------------------------------------------

\* the records main has marked processed in its current run
MarkedByMain == {unprocessed[k].id : k \in 1..Min(i - 1, Len(unprocessed))}

\* the records the peer has marked processed
MarkedByPeer ==
  {peer.unprocessed[k].id : k \in 1..Min(peer.i - 1, Len(peer.unprocessed))}

\* C33: with two overlapping driver runs on one backlog, each record is
\* processed and marked by at most one of the runs and has at most one Call
\* row.
C33_OneRunPerRecord ==
  \A m \in Meetings :
    /\ ~(m \in MarkedByMain /\ m \in MarkedByPeer)
    /\ Cardinality(CallsOf(db, m)) <= 1

\* no two rows of companies carry the same name
CompanyNamesUnique ==
  \A a, b \in RowIds(db.companies) :
    db.companies[a].name = db.companies[b].name => a = b

\* the peer's select found no company, and a row of that name is there now
PeerLostRace ==
  /\ peer.pc = "insert_company"
  /\ peer.existing = NoId
  /\ peer.extraction.company_name.t = "str"
  /\ FindCompanyByName(db, trim(peer.extraction.company_name.v)) # NoId

\* the insert of the process that lost the race raises: no company row and
\* no Call row is written, and the record goes to the catch block of step 2
LoserRaisesBeforeCall ==
  (PeerLostRace /\ peer' # peer) =>
    /\ db' = db
    /\ peer'.pc = AfterExtractionCatch
    /\ peer'.callId = NoId
    /\ [id |-> PeerCurrent.id, step |-> "extraction"] \in peer'.caught

\* C34: when two concurrent runs resolve one company name that has no row,
\* the store never holds two rows of that name: one insert succeeds, the
\* other raises inside storeExtraction before its Call row is inserted.
C34_CompanyRaceRaises ==
  []CompanyNamesUnique /\ [][LoserRaisesBeforeCall]_vars

\* both processes extracted the same meeting and resolved the name Acme; the
\* peer selected before main inserted the row, its own insert has just raised
\* and it holds no company and no Call, while main's Call references the one
\* Acme row
C34_Witness ==
  /\ peer.pc = AfterExtractionCatch
  /\ peer.extraction.company_name.t = "str"
  /\ trim(peer.extraction.company_name.v) = Acme
  /\ peer.existing = NoId
  /\ peer.companyId = NoId
  /\ peer.callId = NoId
  /\ peer.caught = {[id |-> NumMeetings, step |-> "extraction"]}
  /\ caught = {}
  /\ Len(db.companies) = 1
  /\ db.companies[1].name = Acme
  /\ Len(db.calls) = 1
  /\ db.calls[1].companyId = 1

====
